---- MODULE Spec2Model ----
(***************************************************************************)
(* Formula extraction, analysis, cycle detection and evaluation of         *)
(* src/utils/formula_extractor.py (class FormulaExtractor).                *)
(*                                                                         *)
(* A formula text is a sequence of one-character strings, so that the      *)
(* regular expressions and the string replacements of the code are         *)
(* modelled on characters, as the code applies them.                       *)
(***************************************************************************)
EXTENDS Integers, Sequences, FiniteSets, TLC

VARIABLES
    pc,                 \* position of the session: which handler runs next
    formula,            \* formula text handed to _analyze_formula / evaluate_formula
    context,            \* evaluate_formula's context: None or a dict cell -> value
    metadata,           \* result of _analyze_formula(formula, ...)
    previous_metadata,  \* result of the _analyze_formula call before the last
    result,             \* outcome of evaluate_formula(formula, context)
    formula_data,       \* the extracted document: sheets in enumeration order
    validation_results, \* result of validate_formula_integrity(formula_data)
    target,             \* <<sheet, cell>> whose formula was evaluated last
    processed_data,     \* ExcelProcessor: the processed document
    json_output,        \* text returned by export_formulas_to_json
    imported,           \* the "formulas" object parsed back from json_output
    disk_metadata,      \* content of the file output_metadata.json
    managers,           \* the OutputManager instances: their self.metadata
    today,              \* the date datetime.now() answers
    issued,             \* the calls of create_output_path so far, in order
    folders,            \* the folders below the base output directory
    calculation_logic,  \* formula_dependencies of extract_calculation_logic
    formula_validation, \* validate_formulas: its results and loop position
    frames,             \* the calls of _check_circular_reference in progress
    multiple_files,     \* the documents given to create_master_formula_mapping
    master_mapping      \* result of create_master_formula_mapping

extractor_vars == <<pc, formula, context, metadata, previous_metadata, result,
                    formula_data, validation_results, target>>
export_vars == <<processed_data, json_output, imported>>
output_vars == <<disk_metadata, managers, today, issued, folders>>
processor_vars == <<calculation_logic, formula_validation, frames,
                    multiple_files, master_mapping>>

vars == <<extractor_vars, export_vars, output_vars, processor_vars>>

-----------------------------------------------------------------------------
(* Bounds of the model *)

\* lexemes per analysed formula text
MaxTokens == 6
\* lexemes per analysed formula text with numeric constants
MaxNumberTokens == 5
\* lexemes per evaluated formula text
MaxEvalTokens == 4
\* references per formula of a document
MaxRefs == 2

-----------------------------------------------------------------------------
(* Characters *)

Upper == {"A","B","C","D","E","F","G","H","I","J","K","L","M",
          "N","O","P","Q","R","S","T","U","V","W","X","Y","Z"}
Lower == {"a","b","c","d","e","f","g","h","i","j","k","l","m",
          "n","o","p","q","r","s","t","u","v","w","x","y","z"}
Digit == {"0","1","2","3","4","5","6","7","8","9"}
\* \w of the re module
WordChar == Upper \cup Lower \cup Digit \cup {"_"}
\* \s of the re module
Space == {" "}

\* cell addresses and sheet names of the modelled documents
A1 == <<"A","1">>
B1 == <<"B","1">>
C1 == <<"C","1">>
Sheet1 == <<"S","h","e","e","t","1">>
Sheet2 == <<"S","h","e","e","t","2">>

RECURSIVE Flatten(_)
Flatten(ss) == IF ss = <<>> THEN <<>> ELSE Head(ss) \o Flatten(Tail(ss))

\* sequences over S of length 0..n
SeqsUpTo(S, n) == UNION {[1..k -> S] : k \in 0..n}

\* str.startswith
StartsWith(s, p) == Len(s) >= Len(p) /\ SubSeq(s, 1, Len(p)) = p

\* first position >= i of s that is not in class C (Len(s)+1 when the run
\* reaches the end): the end of a greedy C* tried at i
RunEnd(s, i, C) ==
    CHOOSE j \in i..(Len(s) + 1) :
        /\ \A k \in i..(j - 1) : s[k] \in C
        /\ (j = Len(s) + 1 \/ s[j] \notin C)

\* [A-Z]+\d+ tried at i: the position after the match, 0 when it fails
MatchCell(s, i) ==
    LET j == RunEnd(s, i, Upper)
        k == RunEnd(s, j, Digit)
    IN  IF j > i /\ k > j THEN k ELSE 0

\* the pattern without its optional group: [A-Z]+\d+ tried at i
MatchCellOrRange_CellOnly(s, i) == MatchCell(s, i)

\* [A-Z]+\d+(?::[A-Z]+\d+)? tried at i
MatchCellOrRange(s, i) ==
    LET k == MatchCell(s, i)
    IN  IF k = 0 THEN 0
        ELSE IF k <= Len(s) /\ s[k] = ":" /\ MatchCell(s, k + 1) # 0
             THEN MatchCell(s, k + 1)
             ELSE k

\* re.findall(cell_pattern, s) from position i on
RECURSIVE FindCellMatches(_, _)
FindCellMatches(s, i) ==
    IF i > Len(s) THEN <<>>
    ELSE LET e == MatchCellOrRange(s, i)
         IN  IF e = 0 THEN FindCellMatches(s, i + 1)
             ELSE <<SubSeq(s, i, e - 1)>> \o FindCellMatches(s, e)

\* ([A-Z]+)\s*\( tried at i: <<end of group, position after the match>>,
\* <<0, 0>> when it fails
MatchFunction(s, i) ==
    LET j == RunEnd(s, i, Upper)
        k == RunEnd(s, j, Space)
    IN  IF j > i /\ k <= Len(s) /\ s[k] = "(" THEN <<j, k + 1>> ELSE <<0, 0>>

\* re.findall(function_pattern, s) from position i on
RECURSIVE FindFunctionMatches(_, _)
FindFunctionMatches(s, i) ==
    IF i > Len(s) THEN <<>>
    ELSE LET m == MatchFunction(s, i)
         IN  IF m[2] = 0 THEN FindFunctionMatches(s, i + 1)
             ELSE <<SubSeq(s, i, m[1] - 1)>> \o FindFunctionMatches(s, m[2])

OperatorChars == {"+", "-", "*", "/", "^", "<", ">", "="}

\* re.findall(operator_pattern, s)
FindOperatorMatches(s) == SelectSeq(s, LAMBDA c : c \in OperatorChars)

Range(f) == {f[i] : i \in DOMAIN f}

(* values and helpers shared by the analysis and the evaluation *)

DigitVal(c) ==
    CASE c = "0" -> 0 [] c = "1" -> 1 [] c = "2" -> 2 [] c = "3" -> 3
      [] c = "4" -> 4 [] c = "5" -> 5 [] c = "6" -> 6 [] c = "7" -> 7
      [] c = "8" -> 8 [] c = "9" -> 9

\* value of the decimal digits ds
RECURSIVE DecimalValue(_)
DecimalValue(ds) ==
    IF ds = <<>> THEN 0
    ELSE DecimalValue(SubSeq(ds, 1, Len(ds) - 1)) * 10 + DigitVal(ds[Len(ds)])

RECURSIVE Gcd(_, _)
Gcd(a, b) == IF b = 0 THEN a ELSE Gcd(b, a % b)

MkInt(n) == [t |-> "int", n |-> n]
MkFloat(n, d) == LET g == Gcd(n, d) IN [t |-> "float", n |-> n \div g, d |-> d \div g]
MkStr(s) == [t |-> "str", s |-> s]

\* \b at position i of s (between s[i-1] and s[i])
WordBoundary(s, i) ==
    LET before == i > 1 /\ s[i - 1] \in WordChar
        after == i <= Len(s) /\ s[i] \in WordChar
    IN  before # after

\* \b(\d+\.?\d*)\b tried at i: the position after the match, 0 when it
\* fails.  The expression gives up the digits after the point first, then
\* the point; a match that ends in the point needs a word character next.
MatchConstant(s, i) ==
    IF i > Len(s) \/ s[i] \notin Digit \/ ~WordBoundary(s, i) THEN 0
    ELSE LET j == RunEnd(s, i, Digit)
             k == IF j <= Len(s) /\ s[j] = "." THEN RunEnd(s, j + 1, Digit) ELSE j
             ends == {e \in ({j} \cup (j + 1)..k) : WordBoundary(s, e)}
         IN  IF ends = {} THEN 0
             ELSE CHOOSE e \in ends : \A e2 \in ends : e2 <= e

\* re.findall(constant_pattern, s) from position i on
RECURSIVE FindConstantMatches(_, _)
FindConstantMatches(s, i) ==
    IF i > Len(s) THEN <<>>
    ELSE LET k == MatchConstant(s, i)
         IN  IF k = 0 THEN FindConstantMatches(s, i + 1)
             ELSE <<SubSeq(s, i, k - 1)>> \o FindConstantMatches(s, k)

\* whether float(text) accepts text: digits, then at most one point and digits
IsFloatLiteral(text) ==
    LET j == RunEnd(text, 1, Digit)
    IN  /\ j > 1
        /\ \/ j = Len(text) + 1
           \/ text[j] = "." /\ RunEnd(text, j + 1, Digit) = Len(text) + 1

\* 10^n
RECURSIVE PowerOfTen(_)
PowerOfTen(n) == IF n = 0 THEN 1 ELSE 10 * PowerOfTen(n - 1)

\* float(text) of a float literal
ParseFloat(text) ==
    LET j == RunEnd(text, 1, Digit)
        whole == SubSeq(text, 1, j - 1)
        fraction == SubSeq(text, j + 1, Len(text))
    IN  MkFloat(DecimalValue(whole \o fraction), PowerOfTen(Len(fraction)))

-----------------------------------------------------------------------------
(* _analyze_formula *)

\* FormulaType with the reference test put before the function test
FormulaType_ReferencesFirst(cells, ranges, functions, operators) ==
    IF Len(cells) > 5 \/ Len(ranges) > 0 THEN "complex_reference"
    ELSE IF Cardinality(functions) > 0 THEN "function"
    ELSE IF Cardinality(operators) > 3 THEN "complex_arithmetic"
    ELSE "simple"

\* the formula type decided from the token lists
FormulaType(cells, ranges, functions, operators) ==
    IF Cardinality(functions) > 0 THEN "function"
    ELSE IF Len(cells) > 5 \/ Len(ranges) > 0 THEN "complex_reference"
    ELSE IF Cardinality(operators) > 3 THEN "complex_arithmetic"
    ELSE "simple"

\* ComplexityScore with the operators weighted like the ranges
ComplexityScore_OperatorsTwice(cells, ranges, functions, operators) ==
    Len(cells) + Len(ranges) * 2 + Cardinality(functions) * 3
        + Cardinality(operators) * 2

ComplexityScore(cells, ranges, functions, operators) ==
    Len(cells) + Len(ranges) * 2 + Cardinality(functions) * 3
        + Cardinality(operators)

\* the metadata dict as a call finds it when the dict of the call before is
\* used again instead of a new one
EmptyMetadata_Shared(f, cell_address) ==
    IF "referenced_cells" \in DOMAIN metadata
    THEN [metadata EXCEPT !.original_formula = f, !.cell_address = cell_address]
    ELSE [original_formula |-> f, cell_address |-> cell_address,
          referenced_cells |-> <<>>, referenced_ranges |-> <<>>,
          excel_functions |-> {}, operators |-> {}, constants |-> <<>>,
          formula_type |-> "simple", complexity_score |-> 0]

\* the metadata dict every call starts from
EmptyMetadata(f, cell_address) ==
    [original_formula |-> f, cell_address |-> cell_address,
     referenced_cells |-> <<>>, referenced_ranges |-> <<>>,
     excel_functions |-> {}, operators |-> {}, constants |-> <<>>,
     formula_type |-> "simple", complexity_score |-> 0]

\* the metadata m with the tokens of formula_body filled in: the cell and
\* range matches are appended to the lists of m, the other fields assigned
FillMetadata(m, formula_body, cell_matches) ==
    [m EXCEPT
       !.referenced_cells =
           @ \o SelectSeq(cell_matches, LAMBDA x : ":" \notin Range(x)),
       !.referenced_ranges =
           @ \o SelectSeq(cell_matches, LAMBDA x : ":" \in Range(x)),
       !.excel_functions = Range(FindFunctionMatches(formula_body, 1)),
       !.operators = Range(FindOperatorMatches(formula_body)),
       !.constants = [i \in DOMAIN FindConstantMatches(formula_body, 1) |->
                         ParseFloat(FindConstantMatches(formula_body, 1)[i])]]

\* the formula type and the complexity score of the filled metadata m
Classify(m) ==
    [m EXCEPT
       !.formula_type = FormulaType(m.referenced_cells, m.referenced_ranges,
                                    m.excel_functions, m.operators),
       !.complexity_score =
           ComplexityScore(m.referenced_cells, m.referenced_ranges,
                           m.excel_functions, m.operators)]

\* _analyze_formula without the test of the leading "="
AnalyzeFormula_NoMarkerTest(f, cell_address) ==
    Classify(FillMetadata(EmptyMetadata(f, cell_address), f,
                          FindCellMatches(f, 1)))

AnalyzeFormula(f, cell_address) ==
    IF f = <<>> \/ ~StartsWith(f, <<"=">>) THEN EmptyMetadata(f, cell_address)
    ELSE Classify(FillMetadata(EmptyMetadata(f, cell_address),
                               SubSeq(f, 2, Len(f)),
                               FindCellMatches(SubSeq(f, 2, Len(f)), 1)))

\* whether _analyze_formula raises: float() refuses a matched constant
AnalyzeRaises(f, cell_address) ==
    /\ f # <<>>
    /\ StartsWith(f, <<"=">>)
    /\ \E c \in Range(FindConstantMatches(SubSeq(f, 2, Len(f)), 1)) :
           ~IsFloatLiteral(c)

-----------------------------------------------------------------------------
(* _analyze_cross_sheet_dependencies: the qualified references of a formula *)

SheetNameChars == WordChar \cup Space \cup {"'"}

\* (['\w\s]+)!([A-Z]+\d+(?::[A-Z]+\d+)?) tried at i: <<position of the "!",
\* position after the match>>, <<0, 0>> when it fails
MatchCrossSheet(s, i) ==
    LET j == RunEnd(s, i, SheetNameChars)
    IN  IF j > i /\ j <= Len(s) /\ s[j] = "!" /\ MatchCellOrRange(s, j + 1) # 0
        THEN <<j, MatchCellOrRange(s, j + 1)>>
        ELSE <<0, 0>>

\* str.strip("'")
RECURSIVE StripQuotes(_)
StripQuotes(s) ==
    IF s # <<>> /\ s[1] = "'" THEN StripQuotes(Tail(s))
    ELSE IF s # <<>> /\ s[Len(s)] = "'" THEN StripQuotes(SubSeq(s, 1, Len(s) - 1))
    ELSE s

\* re.findall(cross_sheet_pattern, s) from position i on: the pairs
\* <<referenced_sheet, referenced_cell>>, the sheet name stripped
RECURSIVE FindCrossSheetMatches(_, _)
FindCrossSheetMatches(s, i) ==
    IF i > Len(s) THEN <<>>
    ELSE LET m == MatchCrossSheet(s, i)
         IN  IF m[2] = 0 THEN FindCrossSheetMatches(s, i + 1)
             ELSE << <<StripQuotes(SubSeq(s, i, m[1] - 1)),
                       SubSeq(s, m[1] + 1, m[2] - 1)>> >>
                      \o FindCrossSheetMatches(s, m[2])

-----------------------------------------------------------------------------
(* evaluate_formula: substitution of references and translation of functions *)

\* the formula fragment
\*   [c for c in "".__class__.__base__.__subclasses__(*[[]][[0][[0][[0][0)
\*      if c.__name__=="Quitter"][0]("a","b",*[[]][[0][[0][[0][0)(*[[]][[0][[0][[0][0)
\* kept as one opaque character: it starts and ends with a non-word
\* character, holds no cell reference and none of the replaced function
\* names, and after _replace_excel_functions has turned each ")" into
\* "]]]])" it is the Python expression that calls site's Quitter
HostExit == "HOSTEXIT"

\* the formula fragment
\*   " FOO(*[[]][[0][[0][[0][0)"
\* kept as one opaque character in the same way: after
\* _replace_excel_functions it is the Python expression that calls the name
\* FOO, which is not a function of the supported set, without arguments
UnsupportedCall == "FOOCALL"

DigitChar(n) == CHOOSE c \in Digit : DigitVal(c) = n

\* str(n) of an int n >= 0
RECURSIVE IntStr(_)
IntStr(n) == IF n < 10 THEN <<DigitChar(n)>>
             ELSE IntStr(n \div 10) \o <<DigitChar(n % 10)>>

\* str(value) / f'"{value}"' of replace_cell
RenderValue(v) ==
    IF v.t = "str" THEN <<"\"">> \o v.s \o <<"\"">> ELSE IntStr(v.n)

\* \b[A-Z]+\d+\b tried at i: the position after the match, 0 when it fails
MatchBoundedCell(s, i) ==
    LET k == MatchCell(s, i)
    IN  IF k # 0 /\ WordBoundary(s, i) /\ WordBoundary(s, k) THEN k ELSE 0

\* replace_cell: the text put in place of cell_ref
ReplaceCell(cell_ref, ctx) ==
    IF cell_ref \in DOMAIN ctx THEN RenderValue(ctx[cell_ref]) ELSE <<"0">>

\* re.sub(cell_pattern, replace_cell, s) from position i on
RECURSIVE SubstituteFrom(_, _, _)
SubstituteFrom(s, i, ctx) ==
    IF i > Len(s) THEN <<>>
    ELSE LET k == MatchBoundedCell(s, i)
         IN  IF k = 0 THEN <<s[i]>> \o SubstituteFrom(s, i + 1, ctx)
             ELSE ReplaceCell(SubSeq(s, i, k - 1), ctx)
                      \o SubstituteFrom(s, k, ctx)

SubstituteCellReferences(s, ctx) == SubstituteFrom(s, 1, ctx)

\* the references that replace_cell answers with the default "0"
RECURSIVE DefaultedFrom(_, _, _)
DefaultedFrom(s, i, ctx) ==
    IF i > Len(s) THEN {}
    ELSE LET k == MatchBoundedCell(s, i)
         IN  IF k = 0 THEN DefaultedFrom(s, i + 1, ctx)
             ELSE (IF SubSeq(s, i, k - 1) \in DOMAIN ctx THEN {}
                   ELSE {SubSeq(s, i, k - 1)})
                      \cup DefaultedFrom(s, k, ctx)

\* str.replace(pat, rep) from position i on
RECURSIVE ReplaceFrom(_, _, _, _)
ReplaceFrom(s, i, pat, rep) ==
    IF i > Len(s) THEN <<>>
    ELSE IF i + Len(pat) - 1 <= Len(s) /\ SubSeq(s, i, i + Len(pat) - 1) = pat
         THEN rep \o ReplaceFrom(s, i + Len(pat), pat, rep)
         ELSE <<s[i]>> \o ReplaceFrom(s, i + 1, pat, rep)

StrReplace(s, pat, rep) == ReplaceFrom(s, 1, pat, rep)

\* the replacements dict, in insertion order
Replacements ==
    << <<<<"S","U","M","(">>, <<"s","u","m","(","[">>>>,
       <<<<"A","V","E","R","A","G","E","(">>,
         <<"n","p",".","m","e","a","n","(","[">>>>,
       <<<<"M","A","X","(">>, <<"m","a","x","(","[">>>>,
       <<<<"M","I","N","(">>, <<"m","i","n","(","[">>>>,
       <<<<"S","Q","R","T","(">>, <<"n","p",".","s","q","r","t","(">>>>,
       <<<<"A","B","S","(">>, <<"a","b","s","(">>>>,
       <<<<"P","O","W","E","R","(">>, <<"p","o","w","(">>>>,
       <<<<"E","X","P","(">>, <<"n","p",".","e","x","p","(">>>>,
       <<<<"L","N","(">>, <<"n","p",".","l","o","g","(">>>>,
       <<<<"L","O","G","(">>, <<"n","p",".","l","o","g","1","0","(">>>>,
       <<<<"P","I","(",")">>, <<"n","p",".","p","i">>>>,
       <<<<"T","R","U","E">>, <<"T","r","u","e">>>>,
       <<<<"F","A","L","S","E">>, <<"F","a","l","s","e">>>> >>

\* one turn of the loop over the replacements
ReplaceOne(s, excel_func, python_func) ==
    LET r == StrReplace(s, excel_func, python_func)
    IN  IF python_func[Len(python_func)] = "["
        THEN StrReplace(r, <<")">>, <<"]", ")">>)
        ELSE r

RECURSIVE ReplaceLoop(_, _)
ReplaceLoop(s, n) ==
    IF n > Len(Replacements) THEN s
    ELSE ReplaceLoop(ReplaceOne(s, Replacements[n][1], Replacements[n][2]), n + 1)

ReplaceExcelFunctions(s) == ReplaceLoop(s, 1)

-----------------------------------------------------------------------------
(* _safe_eval: eval(expression, safe_dict) on the expressions the modelled   *)
(* formula texts give.  Brackets occur in them only unbalanced (every ")"    *)
(* has become "]]]])" and no input holds a "["), which Python rejects with   *)
(* SyntaxError before it evaluates anything; what is left is arithmetic      *)
(* with + / // and "or" over numbers, names and string literals.             *)

Letter == Upper \cup Lower \cup {"_"}
BinaryDigit == {"0", "1"}
Brackets == {"(", ")", "[", "]"}

\* first position >= i of s holding character c, Len(s)+1 when there is none
FindChar(s, i, c) == RunEnd(s, i, {x \in Range(s) : x # c})

\* value of the binary digits ds
RECURSIVE BinaryValue(_)
BinaryValue(ds) ==
    IF ds = <<>> THEN 0
    ELSE BinaryValue(SubSeq(ds, 1, Len(ds) - 1)) * 2 + DigitVal(ds[Len(ds)])

BadToken == [t |-> "bad"]

\* words that are not names (none is part of a modelled expression)
PyKeywords ==
    { <<"N","o","n","e">>, <<"a","n","d">>, <<"o","r">>, <<"n","o","t">>,
      <<"i","n">>, <<"i","s">>, <<"i","f">>, <<"e","l","s","e">>,
      <<"f","o","r">>, <<"l","a","m","b","d","a">> }

\* the number literal that starts at i: <<token, position after it>>.
\* A decimal literal has no leading zero unless it is all zeros; "0B" starts
\* a binary literal; any other letter after the digits is rejected (the
\* modelled texts hold no E, J, O or X after a digit).
NumberToken(s, i) ==
    LET j == RunEnd(s, i, Digit)
        ds == SubSeq(s, i, j - 1)
    IN  IF j <= Len(s) /\ s[j] \in Letter
        THEN IF ds = <<"0">> /\ s[j] \in {"B", "b"}
             THEN LET k == RunEnd(s, j + 1, BinaryDigit)
                  IN  IF k > j + 1 /\ (k > Len(s) \/ s[k] \notin WordChar)
                      THEN <<[t |-> "num", v |-> BinaryValue(SubSeq(s, j + 1, k - 1))], k>>
                      ELSE <<BadToken, Len(s) + 1>>
             ELSE <<BadToken, Len(s) + 1>>
        ELSE IF Len(ds) > 1 /\ ds[1] = "0" /\ Range(ds) # {"0"}
             THEN <<BadToken, Len(s) + 1>>
             ELSE <<[t |-> "num", v |-> DecimalValue(ds)], j>>

\* the tokens of expression s from position i on
RECURSIVE PyTokens(_, _)
PyTokens(s, i) ==
    IF i > Len(s) THEN <<>>
    ELSE LET c == s[i] IN
      CASE c \in Space -> PyTokens(s, i + 1)
        [] c \in Digit ->
             LET n == NumberToken(s, i) IN <<n[1]>> \o PyTokens(s, n[2])
        [] c \in Letter ->
             LET j == RunEnd(s, i, WordChar)
                 w == SubSeq(s, i, j - 1)
             IN  <<[t |-> IF w \in PyKeywords THEN "keyword" ELSE "name",
                    v |-> w]>> \o PyTokens(s, j)
        [] c = "\"" ->
             LET j == FindChar(s, i + 1, "\"")
             IN  IF j > Len(s) THEN <<BadToken>>
                 ELSE <<[t |-> "str", v |-> SubSeq(s, i + 1, j - 1)]>>
                          \o PyTokens(s, j + 1)
        [] c = "/" ->
             IF i < Len(s) /\ s[i + 1] = "/"
             THEN <<[t |-> "op", v |-> "//"]>> \o PyTokens(s, i + 2)
             ELSE <<[t |-> "op", v |-> "/"]>> \o PyTokens(s, i + 1)
        [] c = "+" -> <<[t |-> "op", v |-> "+"]>> \o PyTokens(s, i + 1)
        [] c \in Brackets -> <<[t |-> "bracket", v |-> c]>> \o PyTokens(s, i + 1)
        [] c \in {",", ">", ".", ":"} ->
             <<[t |-> "punct", v |-> c]>> \o PyTokens(s, i + 1)
        [] c = "!" ->
             IF i < Len(s) /\ s[i + 1] = "=" THEN <<[t |-> "punct", v |-> "!="]>> \o PyTokens(s, i + 2)
             ELSE <<BadToken>>
        [] c = HostExit -> <<[t |-> "host", v |-> c]>> \o PyTokens(s, i + 1)
        [] c = UnsupportedCall ->
             <<[t |-> "call", v |-> <<"F","O","O">>]>> \o PyTokens(s, i + 1)

Opening(c) == IF c = ")" THEN "(" ELSE "["

\* whether the bracket tokens of toks, read from i with the open brackets
\* in stack, are properly nested
RECURSIVE BracketsMatch(_, _, _)
BracketsMatch(toks, i, stack) ==
    IF i > Len(toks) THEN stack = <<>>
    ELSE IF toks[i].t # "bracket" THEN BracketsMatch(toks, i + 1, stack)
    ELSE IF toks[i].v \in {"(", "["}
         THEN BracketsMatch(toks, i + 1, <<toks[i].v>> \o stack)
    ELSE /\ stack # <<>>
         /\ Head(stack) = Opening(toks[i].v)
         /\ BracketsMatch(toks, i + 1, Tail(stack))

(* the parser: or_test := arith ("or" arith)*, arith := term ("+" term)*,       *)
(* term := factor (("/"|"//") factor)*, factor := "+" factor | atom,           *)
(* atom := number | name | string+ | HostExit | UnsupportedCall.               *)
(* Each Parse operator answers [ok, ast, pos]: pos is the next token.          *)

KeywordOr == <<"o","r">>

ParseFail == [ok |-> FALSE, ast |-> <<>>, pos |-> 0]

\* adjacent string literals are one literal
RECURSIVE ParseStrings(_, _, _)
ParseStrings(toks, i, acc) ==
    IF i <= Len(toks) /\ toks[i].t = "str"
    THEN ParseStrings(toks, i + 1, acc \o toks[i].v)
    ELSE [ok |-> TRUE, ast |-> [k |-> "const", v |-> [t |-> "str", s |-> acc]], pos |-> i]

ParseAtom(toks, i) ==
    IF i > Len(toks) THEN ParseFail
    ELSE CASE toks[i].t = "num" ->
                [ok |-> TRUE, pos |-> i + 1,
                 ast |-> [k |-> "const", v |-> [t |-> "int", n |-> toks[i].v]]]
           [] toks[i].t = "name" ->
                [ok |-> TRUE, pos |-> i + 1, ast |-> [k |-> "name", id |-> toks[i].v]]
           [] toks[i].t = "str" -> ParseStrings(toks, i, <<>>)
           [] toks[i].t = "host" ->
                [ok |-> TRUE, pos |-> i + 1, ast |-> [k |-> "host"]]
           [] toks[i].t = "call" ->
                [ok |-> TRUE, pos |-> i + 1, ast |-> [k |-> "call", id |-> toks[i].v]]
           [] toks[i].t = "op" -> ParseFail
           [] toks[i].t = "keyword" /\ toks[i].v = KeywordOr -> ParseFail

RECURSIVE ParseFactor(_, _)
ParseFactor(toks, i) ==
    IF i <= Len(toks) /\ toks[i].t = "op" /\ toks[i].v = "+"
    THEN LET f == ParseFactor(toks, i + 1)
         IN  IF f.ok THEN [ok |-> TRUE, pos |-> f.pos,
                           ast |-> [k |-> "pos", a |-> f.ast]]
             ELSE ParseFail
    ELSE ParseAtom(toks, i)

RECURSIVE ParseTermRest(_, _, _)
ParseTermRest(toks, left, i) ==
    IF i <= Len(toks) /\ toks[i].t = "op" /\ toks[i].v \in {"/", "//"}
    THEN LET f == ParseFactor(toks, i + 1)
         IN  IF f.ok
             THEN ParseTermRest(toks, [k |-> "bin", op |-> toks[i].v,
                                       l |-> left, r |-> f.ast], f.pos)
             ELSE ParseFail
    ELSE [ok |-> TRUE, ast |-> left, pos |-> i]

\* the rest of a term whose first factor parsed as f
TermAfter(toks, f) ==
    IF f.ok THEN ParseTermRest(toks, f.ast, f.pos) ELSE ParseFail

ParseTerm(toks, i) == TermAfter(toks, ParseFactor(toks, i))

RECURSIVE ParseArithRest(_, _, _)
ParseArithRest(toks, left, i) ==
    IF i <= Len(toks) /\ toks[i].t = "op" /\ toks[i].v = "+"
    THEN LET f == ParseTerm(toks, i + 1)
         IN  IF f.ok
             THEN ParseArithRest(toks, [k |-> "bin", op |-> "+",
                                        l |-> left, r |-> f.ast], f.pos)
             ELSE ParseFail
    ELSE [ok |-> TRUE, ast |-> left, pos |-> i]

\* the rest of a sum whose first term parsed as f
ArithAfter(toks, f) ==
    IF f.ok THEN ParseArithRest(toks, f.ast, f.pos) ELSE ParseFail

ParseArith(toks, i) == ArithAfter(toks, ParseTerm(toks, i))

RECURSIVE ParseOrRest(_, _, _)
\* one more operand f of "or" after left
OrOperand(toks, left, f) ==
    IF f.ok THEN ParseOrRest(toks, [k |-> "or", l |-> left, r |-> f.ast], f.pos)
    ELSE ParseFail

ParseOrRest(toks, left, i) ==
    IF i <= Len(toks) /\ toks[i].t = "keyword" /\ toks[i].v = KeywordOr
    THEN OrOperand(toks, left, ParseArith(toks, i + 1))
    ELSE [ok |-> TRUE, ast |-> left, pos |-> i]

\* the rest of an or_test whose first operand parsed as f
OrAfter(toks, f) ==
    IF f.ok THEN ParseOrRest(toks, f.ast, f.pos) ELSE ParseFail

ParseOr(toks, i) == OrAfter(toks, ParseArith(toks, i))

(* values: [t |-> "int", n], [t |-> "bool", n], [t |-> "float", n, d] (the   *)
(* fraction n/d in lowest terms), [t |-> "str", s], [t |-> "object", id].    *)

IsNumber(v) == v.t \in {"int", "bool", "float"}
Numer(v) == v.n
Denom(v) == IF v.t = "float" THEN v.d ELSE 1

Ok(v) == [exc |-> "none", v |-> v]
Exc(name) == [exc |-> name, v |-> MkInt(0)]

\* the names of safe_dict ("__builtins__" is emptied)
SafeObjects ==
    { <<"a","b","s">>, <<"m","a","x">>, <<"m","i","n">>, <<"s","u","m">>,
      <<"p","o","w">>, <<"r","o","u","n","d">>, <<"n","p">> }

LookupName(id) ==
    IF id \in SafeObjects THEN Ok([t |-> "object", id |-> id])
    ELSE IF id = <<"T","r","u","e">> THEN Ok([t |-> "bool", n |-> 1])
    ELSE IF id = <<"F","a","l","s","e">> THEN Ok([t |-> "bool", n |-> 0])
    ELSE Exc("NameError")

PyAdd(a, b) ==
    IF IsNumber(a) /\ IsNumber(b)
    THEN IF a.t # "float" /\ b.t # "float" THEN Ok(MkInt(a.n + b.n))
         ELSE Ok(MkFloat(Numer(a) * Denom(b) + Numer(b) * Denom(a),
                         Denom(a) * Denom(b)))
    ELSE IF a.t = "str" /\ b.t = "str" THEN Ok(MkStr(a.s \o b.s))
    ELSE Exc("TypeError")

PyTrueDiv(a, b) ==
    IF IsNumber(a) /\ IsNumber(b)
    THEN IF Numer(b) = 0 THEN Exc("ZeroDivisionError")
         ELSE Ok(MkFloat(Numer(a) * Denom(b), Denom(a) * Numer(b)))
    ELSE Exc("TypeError")

PyFloorDiv(a, b) ==
    IF IsNumber(a) /\ IsNumber(b)
    THEN IF Numer(b) = 0 THEN Exc("ZeroDivisionError")
         ELSE LET q == (Numer(a) * Denom(b)) \div (Denom(a) * Numer(b))
              IN  IF a.t # "float" /\ b.t # "float" THEN Ok(MkInt(q))
                  ELSE Ok(MkFloat(q, 1))
    ELSE Exc("TypeError")

PyPos(a) ==
    IF a.t = "float" THEN Ok(a)
    ELSE IF IsNumber(a) THEN Ok(MkInt(a.n))
    ELSE Exc("TypeError")

\* bool(v)
PyTruthy(v) ==
    IF IsNumber(v) THEN Numer(v) # 0
    ELSE IF v.t = "str" THEN v.s # <<>>
    ELSE TRUE

\* f() of the value f of a name of safe_dict: none takes no argument
PyCall(f) == Exc("TypeError")

\* evaluation, operands left to right; the first exception ends it
RECURSIVE PyEvalAst(_)
PyEvalAst(ast) ==
    CASE ast.k = "const" -> Ok(ast.v)
      [] ast.k = "name" -> LookupName(ast.id)
      [] ast.k = "host" -> Exc("SystemExit")
      [] ast.k = "call" ->
           IF LookupName(ast.id).exc # "none" THEN LookupName(ast.id)
           ELSE PyCall(LookupName(ast.id).v)
      [] ast.k = "or" ->
           LET l == PyEvalAst(ast.l)
           IN  IF l.exc # "none" \/ PyTruthy(l.v) THEN l
               ELSE PyEvalAst(ast.r)
      [] ast.k = "pos" ->
           LET a == PyEvalAst(ast.a)
           IN  IF a.exc # "none" THEN a ELSE PyPos(a.v)
      [] ast.k = "bin" ->
           LET l == PyEvalAst(ast.l)
           IN  IF l.exc # "none" THEN l
               ELSE LET r == PyEvalAst(ast.r)
                    IN  IF r.exc # "none" THEN r
                        ELSE CASE ast.op = "+" -> PyAdd(l.v, r.v)
                               [] ast.op = "/" -> PyTrueDiv(l.v, r.v)
                               [] ast.op = "//" -> PyFloorDiv(l.v, r.v)

\* the value of the parse p of n tokens: all of them must be consumed
PyEvalParsed(p, n) ==
    IF p.ok /\ p.pos = n + 1 THEN PyEvalAst(p.ast) ELSE Exc("SyntaxError")

\* compilation and evaluation of the tokens toks
PyEvalTokens(toks) ==
    LET bad == \E i \in DOMAIN toks : toks[i].t = "bad"
        bracketed == \E i \in DOMAIN toks : toks[i].t = "bracket"
    IN  CASE bad -> Exc("SyntaxError")
          [] ~bad /\ bracketed /\ ~BracketsMatch(toks, 1, <<>>) -> Exc("SyntaxError")
          [] ~bad /\ ~bracketed -> PyEvalParsed(ParseOr(toks, 1), Len(toks))

\* eval(expression, safe_dict): [exc, v]
PyEval(expression) == PyEvalTokens(PyTokens(expression, 1))

\* the classes "except Exception" catches; SystemExit derives from
\* BaseException only
ExceptionClasses ==
    {"SyntaxError", "NameError", "TypeError", "ZeroDivisionError", "ValueError"}

\* the except clause of _safe_eval applied to the outcome r of eval
ReraiseAsValueError(r) ==
    IF r.exc \in ExceptionClasses
    THEN [exc |-> "ValueError", v |-> r.v, cause |-> r.exc]
    ELSE [exc |-> r.exc, v |-> r.v, cause |-> r.exc]

\* _safe_eval: an Exception of eval is raised again as ValueError
SafeEval(expression) == ReraiseAsValueError(PyEval(expression))

-----------------------------------------------------------------------------
(* evaluate_formula *)

\* a context is [given |-> FALSE] (None) or [given |-> TRUE, cells |-> dict]
NoContext == [given |-> FALSE, cells |-> <<>>]
Truthy(ctx) == ctx.given /\ DOMAIN ctx.cells # {}

\* the outcome: [kind |-> "returned", value] or [kind |-> "raised", exc];
\* the value [t |-> "error", cause] is the string "#ERROR: ..."
Returned(v) == [kind |-> "returned", value |-> v, exc |-> "none"]
Raised(exc) == [kind |-> "raised", value |-> MkInt(0), exc |-> exc]

\* the try block of evaluate_formula: [exc, v, cause]
EvaluateBody(f, ctx) ==
    SafeEval(ReplaceExcelFunctions(
        IF Truthy(ctx)
        THEN SubstituteCellReferences(SubSeq(f, 2, Len(f)), ctx.cells)
        ELSE SubSeq(f, 2, Len(f))))

\* the except clause of evaluate_formula applied to the outcome r of the
\* try block
ErrorAsValue(r) ==
    IF r.exc = "none" THEN Returned(r.v)
    ELSE IF r.exc \in ExceptionClasses
         THEN Returned([t |-> "error", cause |-> r.cause])
         ELSE Raised(r.exc)

EvaluateFormula(f, ctx) ==
    IF f = <<>> \/ ~StartsWith(f, <<"=">>) THEN Returned(MkStr(f))
    ELSE ErrorAsValue(EvaluateBody(f, ctx))

\* the references of f that evaluate_formula replaces by the default "0"
DefaultedReferences(f, ctx) ==
    IF f = <<>> \/ ~StartsWith(f, <<"=">>) \/ ~Truthy(ctx) THEN {}
    ELSE DefaultedFrom(SubSeq(f, 2, Len(f)), 1, ctx.cells)

-----------------------------------------------------------------------------
(* validate_formula_integrity and _detect_circular_references.               *)
(* formula_data is a sequence of sheets in the order of the "sheets" dict;   *)
(* a sheet is [name, formulas, values, formula_metadata], formulas being the *)
(* sequence of <<cell, text>> in the order of its dict, values the keys of   *)
(* its values dict and formula_metadata a function on the formula cells.     *)

\* f"{sheet_name}!{cell_address}"
FullAddress(sheet_name, cell_address) == sheet_name \o <<"!">> \o cell_address

ValidChars ==
    Upper \cup Lower \cup Digit \cup
    {"+", "-", "*", "/", "^", "(", ")", ".", ",", "!", ":", ";", "<", ">",
     "=", "&", "%", " "}

\* str.count(c)
Count(s, c) == Cardinality({i \in DOMAIN s : s[i] = c})

ValidateFormulaSyntax(f) ==
    /\ f # <<>>
    /\ StartsWith(f, <<"=">>)
    /\ Count(f, "(") = Count(f, ")")
    /\ \A i \in DOMAIN f : f[i] \in ValidChars

\* the dependencies dict, as the sequence of <<full_address, neighbours>> in
\* insertion order: the formulas of sheet number n from formula number k on,
\* then the later sheets
RECURSIVE BuildDependencies(_, _, _)
BuildDependencies(fd, n, k) ==
    IF n > Len(fd) THEN <<>>
    ELSE IF k > Len(fd[n].formulas) THEN BuildDependencies(fd, n + 1, 1)
    ELSE LET cell_address == fd[n].formulas[k][1]
             md == fd[n].formula_metadata[cell_address]
             refs == md.referenced_cells
         IN  << <<FullAddress(fd[n].name, cell_address),
                  [i \in DOMAIN refs |-> FullAddress(fd[n].name, refs[i])]>> >>
                 \o BuildDependencies(fd, n, k + 1)

\* dependencies.get(node, [])
Neighbours(dependencies, node) ==
    IF \E i \in DOMAIN dependencies : dependencies[i][1] = node
    THEN dependencies[CHOOSE i \in DOMAIN dependencies :
                          dependencies[i][1] = node][2]
    ELSE <<>>

\* the index of the root of the traversal, whatever x is
IndexOf_Root(path, x) == 1

\* list.index(x)
IndexOf(path, x) == CHOOSE i \in DOMAIN path :
                        path[i] = x /\ \A j \in 1..(i - 1) : path[j] # x

\* has_cycle(node, visited, rec_stack, path): st holds visited, rec_stack,
\* path and circular_refs, which the calls share; the answer is st after the
\* call with ret, the value returned
RECURSIVE HasCycle(_, _, _), HasCycleLoop(_, _, _, _)
HasCycle(dependencies, node, st) ==
    HasCycleLoop(dependencies, node, 1,
                 [st EXCEPT !.visited = @ \cup {node},
                            !.rec_stack = @ \cup {node},
                            !.path = Append(@, node)])

\* the for loop of has_cycle from neighbour number i on, and what follows it
HasCycleLoop(dependencies, node, i, st) ==
    LET ns == Neighbours(dependencies, node)
    IN  IF i > Len(ns)
        THEN [st EXCEPT !.path = SubSeq(@, 1, Len(@) - 1),
                        !.rec_stack = @ \ {node},
                        !.ret = FALSE]
        ELSE LET neighbor == ns[i]
             IN  IF neighbor \notin st.visited
                 THEN LET r == HasCycle(dependencies, neighbor, st)
                      IN  IF r.ret THEN r
                          ELSE HasCycleLoop(dependencies, node, i + 1, r)
                 ELSE IF neighbor \in st.rec_stack
                 THEN LET cycle_start == IndexOf(st.path, neighbor)
                          cycle == SubSeq(st.path, cycle_start, Len(st.path))
                                       \o <<neighbor>>
                      IN  [st EXCEPT !.circular_refs = Append(@, cycle),
                                     !.ret = TRUE]
                 ELSE HasCycleLoop(dependencies, node, i + 1, st)

\* the loop over the roots from root number n on: circular_refs at its end
RECURSIVE DetectFrom(_, _, _, _)
DetectFrom(dependencies, n, visited, circular_refs) ==
    IF n > Len(dependencies) THEN circular_refs
    ELSE LET node == dependencies[n][1]
         IN  IF node \notin visited
             THEN LET r == HasCycle(dependencies, node,
                                    [visited |-> visited, rec_stack |-> {},
                                     path |-> <<>>,
                                     circular_refs |-> circular_refs,
                                     ret |-> FALSE])
                  IN  DetectFrom(dependencies, n + 1, r.visited, r.circular_refs)
             ELSE DetectFrom(dependencies, n + 1, visited, circular_refs)

\* the loop over the roots from root number n on: for every root the loop
\* starts has_cycle on, <<root, visited after that call>>
RECURSIVE RootTraversals(_, _, _)
TraversalsAfter(dependencies, n, r) ==
    << <<dependencies[n][1], r.visited, r.ret>> >>
        \o RootTraversals(dependencies, n + 1, r.visited)

RootTraversals(dependencies, n, visited) ==
    IF n > Len(dependencies) THEN <<>>
    ELSE IF dependencies[n][1] \notin visited
         THEN TraversalsAfter(dependencies, n,
                  HasCycle(dependencies, dependencies[n][1],
                           [visited |-> visited, rec_stack |-> {},
                            path |-> <<>>, circular_refs |-> <<>>,
                            ret |-> FALSE]))
         ELSE RootTraversals(dependencies, n + 1, visited)

\* DetectFrom with a visited set of its own for every root
RECURSIVE DetectFrom_FreshVisited(_, _, _)
DetectFrom_FreshVisited(dependencies, n, circular_refs) ==
    IF n > Len(dependencies) THEN circular_refs
    ELSE LET r == HasCycle(dependencies, dependencies[n][1],
                           [visited |-> {}, rec_stack |-> {}, path |-> <<>>,
                            circular_refs |-> circular_refs, ret |-> FALSE])
         IN  DetectFrom_FreshVisited(dependencies, n + 1, r.circular_refs)

DetectCircularReferences_FreshVisited(fd) ==
    DetectFrom_FreshVisited(BuildDependencies(fd, 1, 1), 1, <<>>)

\* _detect_circular_references(formula_data): the cycles, in report order
DetectCircularReferences(fd) ==
    DetectFrom(BuildDependencies(fd, 1, 1), 1, {}, <<>>)

\* all_cells: the bare addresses of every sheet
AllCells(fd) ==
    UNION {fd[n].values \cup {fd[n].formulas[k][1] : k \in DOMAIN fd[n].formulas}
               : n \in DOMAIN fd}

\* the loop over the formulas without the continue after a syntax error: the
\* formula goes on to the test of its references
RECURSIVE ValidateFrom_NoContinue(_, _, _, _)
ValidateFrom_NoContinue(fd, n, k, vr) ==
    IF n > Len(fd) THEN vr
    ELSE IF k > Len(fd[n].formulas) THEN ValidateFrom_NoContinue(fd, n + 1, 1, vr)
    ELSE LET cell_address == fd[n].formulas[k][1]
             f == fd[n].formulas[k][2]
             entry == [sheet |-> fd[n].name, cell |-> cell_address, formula |-> f]
             counted == IF ValidateFormulaSyntax(f)
                        THEN [vr EXCEPT !.total_formulas = @ + 1]
                        ELSE [vr EXCEPT !.total_formulas = @ + 1,
                                        !.syntax_errors = Append(@, entry),
                                        !.error_formulas = @ + 1]
             refs == fd[n].formula_metadata[cell_address].referenced_cells
             missing_refs == SelectSeq(refs, LAMBDA r : r \notin AllCells(fd))
         IN  IF missing_refs # <<>>
             THEN ValidateFrom_NoContinue(fd, n, k + 1,
                      [counted EXCEPT
                          !.missing_references =
                              Append(@, [sheet |-> fd[n].name,
                                         cell |-> cell_address, formula |-> f,
                                         missing_references |-> missing_refs]),
                          !.warning_formulas = @ + 1])
             ELSE ValidateFrom_NoContinue(fd, n, k + 1,
                      [counted EXCEPT !.valid_formulas = @ + 1])

\* the loop over the formulas from formula k of sheet n on; vr is
\* validation_results so far
RECURSIVE ValidateFrom(_, _, _, _)
ValidateFrom(fd, n, k, vr) ==
    IF n > Len(fd) THEN vr
    ELSE IF k > Len(fd[n].formulas) THEN ValidateFrom(fd, n + 1, 1, vr)
    ELSE LET cell_address == fd[n].formulas[k][1]
             f == fd[n].formulas[k][2]
             counted == [vr EXCEPT !.total_formulas = @ + 1]
             refs == fd[n].formula_metadata[cell_address].referenced_cells
             missing_refs == SelectSeq(refs, LAMBDA r : r \notin AllCells(fd))
             entry == [sheet |-> fd[n].name, cell |-> cell_address, formula |-> f]
         IN  IF ~ValidateFormulaSyntax(f)
             THEN ValidateFrom(fd, n, k + 1,
                      [counted EXCEPT !.syntax_errors = Append(@, entry),
                                      !.error_formulas = @ + 1])
             ELSE IF missing_refs # <<>>
             THEN ValidateFrom(fd, n, k + 1,
                      [counted EXCEPT
                          !.missing_references =
                              Append(@, [sheet |-> fd[n].name,
                                         cell |-> cell_address, formula |-> f,
                                         missing_references |-> missing_refs]),
                          !.warning_formulas = @ + 1])
             ELSE ValidateFrom(fd, n, k + 1,
                      [counted EXCEPT !.valid_formulas = @ + 1])

ValidateFormulaIntegrity(fd) ==
    LET vr == ValidateFrom(fd, 1, 1,
                  [syntax_errors |-> <<>>, circular_references |-> <<>>,
                   missing_references |-> <<>>,
                   total_formulas |-> 0, valid_formulas |-> 0,
                   error_formulas |-> 0, warning_formulas |-> 0])
    IN  [vr EXCEPT !.circular_references = DetectCircularReferences(fd)]

-----------------------------------------------------------------------------
(* Analysis of one formula text: the inputs and the session *)

AnalyzeLexemes ==
    { A1, <<":">>, <<"+">>, <<"<", ">">>, <<">", "=">>, <<"S","U","M","(">> }

NoMetadata == [formula_type |-> "unset"]
NoResult == [kind |-> "unset"]
NoDocument == <<>>
NoValidation == [state |-> "unset"]
NoTarget == <<>>

\* no ExcelProcessor and no OutputManager at work
ExportIdle == processed_data = <<>> /\ json_output = <<>> /\ imported = <<>>
\* no validation of a processed document and no master mapping at work
ProcessorIdle ==
    /\ calculation_logic = <<>>
    /\ formula_validation = <<>>
    /\ frames = <<>>
    /\ multiple_files = <<>>
    /\ master_mapping = <<>>
OutputIdle ==
    /\ disk_metadata = <<>>
    /\ managers = <<>>
    /\ today = <<>>
    /\ issued = <<>>
    /\ folders = {}

\* lexemes of the formula texts with numeric constants
NumberLexemes == { <<"1">>, <<"0">>, <<".">>, <<"A">>, <<"+">> }

\* texts without the leading "="
UnmarkedTexts == { <<>>, A1, <<"A","1","+","1">>, <<"S","U","M","(","A","1",")">> }

InitAnalyze ==
    /\ pc = "analyze"
    /\ \/ \E ts \in SeqsUpTo(AnalyzeLexemes, MaxTokens) :
            formula = <<"=">> \o Flatten(ts)
       \/ \E ts \in SeqsUpTo(NumberLexemes, MaxNumberTokens) :
            formula = <<"=">> \o Flatten(ts)
       \/ formula \in UnmarkedTexts
    /\ context = NoContext
    /\ metadata = NoMetadata
    /\ previous_metadata = NoMetadata
    /\ result = NoResult
    /\ formula_data = NoDocument
    /\ validation_results = NoValidation
    /\ target = NoTarget
    /\ ExportIdle
    /\ ProcessorIdle
    /\ OutputIdle

\* _analyze_formula(formula, "A1"): it returns the metadata or raises
Analyze ==
    /\ pc = "analyze"
    /\ IF AnalyzeRaises(formula, A1)
       THEN metadata' = NoMetadata /\ pc' = "analyze_raised"
       ELSE metadata' = AnalyzeFormula(formula, A1) /\ pc' = "analyzed"
    /\ UNCHANGED <<formula, context, previous_metadata, result, formula_data,
                   validation_results, target, export_vars, output_vars,
                   processor_vars>>

\* _analyze_formula(formula, "A1") once more, on the same extractor
Reanalyze ==
    /\ pc = "analyzed"
    /\ previous_metadata' = metadata
    /\ metadata' = AnalyzeFormula(formula, A1)
    /\ pc' = "reanalyzed"
    /\ UNCHANGED <<formula, context, result, formula_data, validation_results,
                   target, export_vars, output_vars,
                   processor_vars>>

NextAnalyze == Analyze \/ Reanalyze

SpecAnalyze == InitAnalyze /\ [][NextAnalyze]_vars

-----------------------------------------------------------------------------
(* Evaluation of one formula text: the inputs and the session *)

EvalLexemes == { A1, B1, <<"+">>, <<"/">>, <<"1">>, <<"0">> }

\* =SQRT(16)
SqrtFormula == <<"=","S","Q","R","T","(","1","6",")">>
\* =ABS(16)
AbsFormula == <<"=","A","B","S","(","1","6",")">>
\* =SUM(16)
SumFormula == <<"=","S","U","M","(","1","6",")">>
\* =IF(1>0,"SAFE","UNSAFE")
IfFormula ==
    <<"=","I","F","(","1",">","0",",","\"","S","A","F","E","\"",",",
      "\"","U","N","S","A","F","E","\"",")">>
\* = followed by the host-calling fragment
HostExitFormula == <<"=", HostExit>>

FunctionFormulas == {SqrtFormula, AbsFormula, SumFormula, IfFormula}

\* "=" x " or" UnsupportedCall for some operands x, the call alone and in a
\* sum, and "or" between numbers and at the ends
UnsupportedCallFormulas ==
    { <<"=">> \o x \o <<" ","o","r", UnsupportedCall>> :
          x \in { <<"T","R","U","E">>, <<"F","A","L","S","E">>, <<"1">>, <<"0">>,
                  A1, <<"1","/","0">> } }
    \cup { <<"=", UnsupportedCall>>, <<"=","1","+", UnsupportedCall>>,
           <<"=","1"," ","o","r"," ","1","/","0">>,
           <<"=","0"," ","o","r"," ","0">>,
           <<"=","1"," ","o","r">>, <<"=","o","r"," ","1">> }

\* texts without the formula marker
PlainTexts == {Flatten(ts) : ts \in SeqsUpTo(EvalLexemes, 1)}

Dict(cells) == [given |-> TRUE, cells |-> cells]

Contexts ==
    { NoContext,
      Dict(<<>>),
      Dict([c \in {A1} |-> MkInt(5)]),
      Dict([c \in {B1} |-> MkInt(0)]),
      Dict([c \in {A1, B1} |-> IF c = A1 THEN MkInt(1) ELSE MkInt(2)]),
      Dict([c \in {A1} |-> MkStr(<<"x">>)]),
      Dict([c \in {A1} |-> MkStr(<<"\"", "+", HostExit, "+", "\"">>)]) }

InitEval ==
    /\ pc = "evaluate"
    /\ \/ \E ts \in SeqsUpTo(EvalLexemes, MaxEvalTokens) :
            formula = <<"=">> \o Flatten(ts)
       \/ formula \in PlainTexts \cup FunctionFormulas \cup {HostExitFormula}
                         \cup UnsupportedCallFormulas
    /\ context \in Contexts
    /\ metadata = NoMetadata
    /\ previous_metadata = NoMetadata
    /\ result = NoResult
    /\ formula_data = NoDocument
    /\ validation_results = NoValidation
    /\ target = NoTarget
    /\ ExportIdle
    /\ ProcessorIdle
    /\ OutputIdle

\* evaluate_formula(formula, context)
Evaluate ==
    /\ pc = "evaluate"
    /\ result' = EvaluateFormula(formula, context)
    /\ pc' = "evaluated"
    /\ UNCHANGED <<formula, context, metadata, previous_metadata, formula_data,
                   validation_results, target, export_vars, output_vars,
                   processor_vars>>

NextEval == Evaluate

SpecEval == InitEval /\ [][NextEval]_vars

-----------------------------------------------------------------------------
(* Validation of a document and evaluation of its formulas: the inputs and   *)
(* the session                                                               *)

Cells == {A1, B1, C1}

\* the sequences of distinct elements of S
InjectiveSeqs(S) ==
    {q \in SeqsUpTo(S, Cardinality(S)) :
        \A i, j \in DOMAIN q : i # j => q[i] # q[j]}

\* "=" r1 "+" ... "+" rn "+1", and "=1" without references
RECURSIVE JoinPlus(_)
JoinPlus(refs) ==
    IF refs = <<>> THEN <<"1">> ELSE Head(refs) \o <<"+">> \o JoinPlus(Tail(refs))

FormulaText(refs) == <<"=">> \o JoinPlus(refs)

\* one sheet as _extract_sheet_formulas leaves it: every cell that holds
\* something is a key of values, every formula has its metadata
ExtractedSheet(name, formulas, value_cells) ==
    [name |-> name,
     formulas |-> formulas,
     values |-> value_cells \cup Range([i \in DOMAIN formulas |-> formulas[i][1]]),
     formula_metadata |->
         [c \in Range([i \in DOMAIN formulas |-> formulas[i][1]]) |->
             AnalyzeFormula(
                 formulas[CHOOSE i \in DOMAIN formulas : formulas[i][1] = c][2], c)]]

\* the sheet named name whose formula cells are order, in that order, formula
\* number i referring to the references refs[i], the cells of vals holding
\* a value
SheetOf(name, order, refs, vals) ==
    ExtractedSheet(name,
        [i \in DOMAIN order |-> <<order[i], FormulaText(refs[i])>>], vals)

\* the orders of at most max_formulas formula cells among cells
Orders(cells, max_formulas) ==
    {q \in InjectiveSeqs(cells) : Len(q) <= max_formulas}

\* a reference to a cell of {A1, B1}: bare, or qualified with a sheet name
QualifiedRefs ==
    {A1, B1} \cup {FullAddress(sh, c) : sh \in {Sheet1, Sheet2}, c \in {A1, B1}}

\* the document is one sheet, Sheet1, with references inside the sheet
InitOneSheet ==
    \E order \in Orders(Cells, Cardinality(Cells)) :
      \E refs \in [DOMAIN order -> SeqsUpTo(Cells, MaxRefs)] :
        \E vals \in SUBSET (Cells \ Range(order)) :
          formula_data = <<SheetOf(Sheet1, order, refs, vals)>>

\* the document is two sheets, in either order, each with at most one
\* formula, of one reference
InitTwoSheets ==
    \E o1 \in Orders({A1, B1}, 1), o2 \in Orders({A1, B1}, 1) :
      \E r1 \in [DOMAIN o1 -> {<<r>> : r \in QualifiedRefs}],
         r2 \in [DOMAIN o2 -> {<<r>> : r \in QualifiedRefs}] :
        \E v1 \in SUBSET ({A1, B1} \ Range(o1)),
           v2 \in SUBSET ({A1, B1} \ Range(o2)) :
          \E first \in {Sheet1, Sheet2} :
            formula_data =
                IF first = Sheet1
                THEN <<SheetOf(Sheet1, o1, r1, v1), SheetOf(Sheet2, o2, r2, v2)>>
                ELSE <<SheetOf(Sheet2, o2, r2, v2), SheetOf(Sheet1, o1, r1, v1)>>

\* formulas with parentheses and with a character outside the valid ones
SyntaxTexts ==
    { <<"=","(","A","1",")">>, <<"=",")","A","1","(">>, <<"=","(","A","1">>,
      <<"=","A","1","_","+","1">>, <<"=","A","1","+","1">>,
      <<"=","C","1","+","1">> }

\* the document is one sheet, Sheet1, with at most two formulas of SyntaxTexts
InitSyntaxSheet ==
    \E order \in Orders({A1, B1}, 2) :
      \E texts \in [DOMAIN order -> SyntaxTexts] :
        \E vals \in SUBSET ({A1, B1} \ Range(order)) :
          formula_data =
              <<ExtractedSheet(Sheet1,
                    [i \in DOMAIN order |-> <<order[i], texts[i]>>], vals)>>

\* =SUM(c:d) for the cells c and d
RangeFormula(c, d) == <<"=","S","U","M","(">> \o c \o <<":">> \o d \o <<")">>

\* formulas over a range and formulas of one reference
RangeTexts ==
    {RangeFormula(c, d) : c, d \in Cells} \cup {FormulaText(<<c>>) : c \in Cells}

\* the document is one sheet, Sheet1, with at most two formulas of RangeTexts
InitRangeSheet ==
    \E order \in Orders(Cells, 2) :
      \E texts \in [DOMAIN order -> RangeTexts] :
        \E vals \in SUBSET (Cells \ Range(order)) :
          formula_data =
              <<ExtractedSheet(Sheet1,
                    [i \in DOMAIN order |-> <<order[i], texts[i]>>], vals)>>

\* the contexts a document's formulas are evaluated with
DocContexts ==
    { NoContext,
      Dict([c \in Cells |-> IF c = A1 THEN MkInt(1)
                            ELSE IF c = B1 THEN MkInt(2) ELSE MkInt(3)]) }

Init ==
    /\ pc = "loaded"
    /\ (InitOneSheet \/ InitTwoSheets \/ InitSyntaxSheet \/ InitRangeSheet)
    /\ formula = <<>>
    /\ context = NoContext
    /\ metadata = NoMetadata
    /\ previous_metadata = NoMetadata
    /\ result = NoResult
    /\ validation_results = NoValidation
    /\ target = NoTarget
    /\ ExportIdle
    /\ ProcessorIdle
    /\ OutputIdle

\* validate_formula_integrity(formula_data)
Validate ==
    /\ pc = "loaded"
    /\ validation_results' = ValidateFormulaIntegrity(formula_data)
    /\ pc' = "validated"
    /\ UNCHANGED <<formula, context, metadata, previous_metadata, result,
                   formula_data, target, export_vars, output_vars,
                   processor_vars>>

\* evaluate_formula on the formula of one cell of the validated document
EvaluateCell ==
    /\ pc = "validated"
    /\ \E n \in DOMAIN formula_data :
         \E k \in DOMAIN formula_data[n].formulas :
           \E ctx \in DocContexts :
             /\ formula' = formula_data[n].formulas[k][2]
             /\ context' = ctx
             /\ target' = <<formula_data[n].name, formula_data[n].formulas[k][1]>>
             /\ result' = EvaluateFormula(formula_data[n].formulas[k][2], ctx)
    /\ pc' = "evaluated"
    /\ UNCHANGED <<metadata, previous_metadata, formula_data,
                   validation_results, export_vars, output_vars,
                   processor_vars>>

Next == Validate \/ EvaluateCell

Spec == Init /\ [][Next]_vars

-----------------------------------------------------------------------------
(* ExcelProcessor.export_formulas_to_json.  A processed document is          *)
(* [filename, sheets]: the sheets in the order of the "sheets" dict, each    *)
(* [name, formulas], the formulas a sequence of <<cell_ref, formula>> in     *)
(* dict order.  The members "calculation_logic" and "validation_results" of  *)
(* the exported object are left out of the modelled text: they are built     *)
(* from the same strings and from numbers and do not touch "formulas".       *)

\* full_ref = f"{sheet_name}!{cell_ref}"
FullRef(sheet_name, cell_ref) == sheet_name \o <<"!">> \o cell_ref

\* dict[key] = value on a dict kept as a sequence of <<key, value>> pairs
DictSet(d, key, value) ==
    IF \E i \in DOMAIN d : d[i][1] = key
    THEN [i \in DOMAIN d |-> IF d[i][1] = key THEN <<key, value>> ELSE d[i]]
    ELSE Append(d, <<key, value>>)

\* the loop that flattens the formulas of sheet n from formula k on into d
RECURSIVE FlattenFormulas(_, _, _, _)
FlattenFormulas(sheets, n, k, d) ==
    IF n > Len(sheets) THEN d
    ELSE IF k > Len(sheets[n].formulas) THEN FlattenFormulas(sheets, n + 1, 1, d)
    ELSE FlattenFormulas(sheets, n, k + 1,
             DictSet(d, FullRef(sheets[n].name, sheets[n].formulas[k][1]),
                     sheets[n].formulas[k][2]))

\* a str written between the quotes as it is
JsonEscape_Raw(s) == s

\* json.dumps of a str with ensure_ascii=False: the characters of s escaped
RECURSIVE JsonEscape(_)
JsonEscape(s) ==
    IF s = <<>> THEN <<>>
    ELSE (CASE Head(s) = "\"" -> <<"\\", "\"">>
            [] Head(s) = "\\" -> <<"\\", "\\">>
            [] Head(s) = "\n" -> <<"\\", "n">>
            [] OTHER -> <<Head(s)>>) \o JsonEscape(Tail(s))

JsonString(s) == <<"\"">> \o JsonEscape(s) \o <<"\"">>

\* the spaces json.dumps(indent=2) puts before a member of nesting level
RECURSIVE Indent(_)
Indent(level) == IF level = 0 THEN <<>> ELSE <<" ", " ">> \o Indent(level - 1)

\* the members <<key, rendered value>> from the i-th on, at nesting level
RECURSIVE JsonMembers(_, _, _)
JsonMembers(pairs, i, level) ==
    IF i > Len(pairs) THEN <<>>
    ELSE Indent(level) \o JsonString(pairs[i][1]) \o <<":", " ">> \o pairs[i][2]
           \o (IF i < Len(pairs) THEN <<",", "\n">> ELSE <<"\n">>)
           \o JsonMembers(pairs, i + 1, level)

\* json.dumps of a dict whose values are rendered already
JsonObject(pairs, level) ==
    IF pairs = <<>> THEN <<"{", "}">>
    ELSE <<"{", "\n">> \o JsonMembers(pairs, 1, level + 1)
           \o Indent(level) \o <<"}">>

\* datetime.now().isoformat() at the export
ExportDate == <<"2","0","2","6","-","0","1","-","0","1","T","0","0",":","0","0",":","0","0">>

\* the dict export_data as far as modelled, every value rendered
ExportData(pd) ==
    << <<<<"m","e","t","a","d","a","t","a">>,
         JsonObject(<< <<<<"e","x","p","o","r","t","_","d","a","t","e">>, JsonString(ExportDate)>>,
                       <<<<"s","o","u","r","c","e","_","f","i","l","e">>, JsonString(pd.filename)>>,
                       <<<<"t","o","t","a","l","_","s","h","e","e","t","s">>, IntStr(Len(pd.sheets))>> >>, 1)>>,
       <<<<"f","o","r","m","u","l","a","s">>,
         JsonObject([i \in DOMAIN FlattenFormulas(pd.sheets, 1, 1, <<>>) |->
                        <<FlattenFormulas(pd.sheets, 1, 1, <<>>)[i][1],
                          JsonString(FlattenFormulas(pd.sheets, 1, 1, <<>>)[i][2])>>],
                    1)>> >>

\* export_formulas_to_json(processed_data): the returned text
ExportFormulasToJson(pd) == JsonObject(ExportData(pd), 0)

(* json.loads, the reader of the exported text.  A parse is [ok, t, v, pos]: *)
(* t is "str", "int" or "dict" and v the string, the number or the dict, a   *)
(* sequence of <<key, value>> pairs in insertion order; pos is the position  *)
(* after the value.                                                          *)

JsonFail == [ok |-> FALSE, t |-> "none", v |-> <<>>, pos |-> 0]

\* the keys of a dict, and dict[key]
DictKeys(d) == {d[i][1] : i \in DOMAIN d}
DictGet(d, key) == d[CHOOSE i \in DOMAIN d : d[i][1] = key][2]

SkipSpace(text, i) == RunEnd(text, i, {" ", "\n"})

\* the characters of a string literal from i on (after the opening quote)
RECURSIVE JsonStringFrom(_, _, _)
JsonStringFrom(text, i, acc) ==
    IF i > Len(text) THEN JsonFail
    ELSE IF text[i] = "\"" THEN [ok |-> TRUE, t |-> "str", v |-> acc, pos |-> i + 1]
    ELSE IF text[i] = "\\"
         THEN IF i = Len(text) THEN JsonFail
              ELSE IF text[i + 1] \in {"\"", "\\"}
                   THEN JsonStringFrom(text, i + 2, Append(acc, text[i + 1]))
              ELSE IF text[i + 1] = "n"
                   THEN JsonStringFrom(text, i + 2, Append(acc, "\n"))
              ELSE JsonFail
    ELSE JsonStringFrom(text, i + 1, Append(acc, text[i]))

RECURSIVE ParseJsonValue(_, _)
RECURSIVE ParseJsonMembers(_, _, _)
RECURSIVE MembersAfterKey(_, _, _)
RECURSIVE MembersAfterValue(_, _, _, _)

\* the members of an object from i on, acc the members read so far; a key
\* read again replaces the value read before
ParseJsonMembers(text, i, acc) ==
    IF i <= Len(text) /\ text[i] = "\""
    THEN MembersAfterKey(text, JsonStringFrom(text, i + 1, <<>>), acc)
    ELSE JsonFail

MembersAfterKey(text, key, acc) ==
    IF ~key.ok \/ SkipSpace(text, key.pos) > Len(text)
       \/ text[SkipSpace(text, key.pos)] # ":"
    THEN JsonFail
    ELSE MembersAfterValue(text, key.v,
             ParseJsonValue(text, SkipSpace(text, SkipSpace(text, key.pos) + 1)),
             acc)

MembersAfterValue(text, key, value, acc) ==
    IF ~value.ok \/ SkipSpace(text, value.pos) > Len(text) THEN JsonFail
    ELSE IF text[SkipSpace(text, value.pos)] = ","
         THEN ParseJsonMembers(text, SkipSpace(text, SkipSpace(text, value.pos) + 1),
                               DictSet(acc, key, value.v))
    ELSE IF text[SkipSpace(text, value.pos)] = "}"
         THEN [ok |-> TRUE, t |-> "dict", v |-> DictSet(acc, key, value.v),
               pos |-> SkipSpace(text, value.pos) + 1]
    ELSE JsonFail

ParseJsonValue(text, i) ==
    IF i > Len(text) THEN JsonFail
    ELSE IF text[i] = "\"" THEN JsonStringFrom(text, i + 1, <<>>)
    ELSE IF text[i] \in Digit
         THEN [ok |-> TRUE, t |-> "int",
               v |-> DecimalValue(SubSeq(text, i, RunEnd(text, i, Digit) - 1)),
               pos |-> RunEnd(text, i, Digit)]
    ELSE IF text[i] = "{"
         THEN IF SkipSpace(text, i + 1) <= Len(text)
                 /\ text[SkipSpace(text, i + 1)] = "}"
              THEN [ok |-> TRUE, t |-> "dict", v |-> <<>>,
                    pos |-> SkipSpace(text, i + 1) + 1]
              ELSE ParseJsonMembers(text, SkipSpace(text, i + 1), <<>>)
    ELSE JsonFail

\* the whole text must be one value
WholeText(text, p) ==
    IF p.ok /\ SkipSpace(text, p.pos) = Len(text) + 1 THEN p ELSE JsonFail

JsonLoads(text) == WholeText(text, ParseJsonValue(text, SkipSpace(text, 1)))

\* json.loads(text)["formulas"]: [ok, formulas]
FormulasOf(p) ==
    IF p.ok /\ p.t = "dict" /\ <<"f","o","r","m","u","l","a","s">> \in DictKeys(p.v)
    THEN [ok |-> TRUE, formulas |-> DictGet(p.v, <<"f","o","r","m","u","l","a","s">>)]
    ELSE [ok |-> FALSE, formulas |-> <<>>]

ImportFormulas(text) == FormulasOf(JsonLoads(text))

-----------------------------------------------------------------------------
(* SpecExport: an ExcelProcessor exports the formulas of a processed         *)
(* document and the exported text is read back.                              *)

MaxSheets == 2
MaxSheetFormulas == 2

\* no FormulaExtractor at work
ExtractorIdle ==
    /\ formula = <<>>
    /\ context = NoContext
    /\ metadata = NoMetadata
    /\ previous_metadata = NoMetadata
    /\ result = NoResult
    /\ formula_data = NoDocument
    /\ validation_results = NoValidation
    /\ target = NoTarget

\* sheet names: a workbook may name a sheet with "!", a quote or a backslash
ExportSheetNames == { <<"S">>, <<"S","!","A","1">>, <<"T","\"","\\">> }

\* cell_ref = column_letter + row of the openpyxl cells
ExportCells == {A1, B1}

\* formulas: str values that start with "="
ExportTexts == { <<"=","B","1","+","1">>, <<"=","\"","a","\"">>,
                 <<"=","\\","\"">>, <<"=","\\","n">> }

ExportFilename == <<"f",".","x","l","s","x">>

\* the sequences of at most n distinct elements of S
InjectiveSeqsUpTo(S, n) ==
    {q \in SeqsUpTo(S, n) : \A i, j \in DOMAIN q : i # j => q[i] # q[j]}

InitExport ==
    /\ pc = "processed"
    /\ \E names \in InjectiveSeqsUpTo(ExportSheetNames, MaxSheets) :
         /\ names # <<>>
         /\ \E cells \in [DOMAIN names -> InjectiveSeqsUpTo(ExportCells, MaxSheetFormulas)] :
              \E texts \in [DOMAIN names -> SeqsUpTo(ExportTexts, MaxSheetFormulas)] :
                /\ \A n \in DOMAIN names : Len(texts[n]) = Len(cells[n])
                /\ processed_data =
                    [filename |-> ExportFilename,
                     sheets |-> [n \in DOMAIN names |->
                         [name |-> names[n],
                          formulas |-> [k \in DOMAIN cells[n] |->
                                           <<cells[n][k], texts[n][k]>>]]]]
    /\ json_output = <<>>
    /\ imported = <<>>
    /\ ExtractorIdle
    /\ OutputIdle
    /\ ProcessorIdle

\* export_formulas_to_json(processed_data) without a filename
Export ==
    /\ pc = "processed"
    /\ json_output' = ExportFormulasToJson(processed_data)
    /\ pc' = "exported"
    /\ UNCHANGED <<formula, context, metadata, previous_metadata, result,
                   formula_data, validation_results, target, processed_data,
                   imported, output_vars, processor_vars>>

\* json.loads(json_output)["formulas"]
Import ==
    /\ pc = "exported"
    /\ imported' = ImportFormulas(json_output)
    /\ pc' = "imported"
    /\ UNCHANGED <<formula, context, metadata, previous_metadata, result,
                   formula_data, validation_results, target, processed_data,
                   json_output, output_vars, processor_vars>>

NextExport == Export \/ Import

SpecExport == InitExport /\ [][NextExport]_vars

-----------------------------------------------------------------------------
(* OutputManager.  The metadata file is [exists, text]; the metadata of a    *)
(* manager is a dict, a sequence of <<key, count>> pairs in insertion order. *)
(* Failures of the file system (mkdir, open) are not modelled.               *)

\* c.isalnum() or c in "._- "
KeptChars == Upper \cup Lower \cup Digit \cup {".", "_", "-", " "}

\* str.strip()
RECURSIVE Strip(_)
Strip(s) ==
    IF s # <<>> /\ s[1] = " " THEN Strip(Tail(s))
    ELSE IF s # <<>> /\ s[Len(s)] = " " THEN Strip(SubSeq(s, 1, Len(s) - 1))
    ELSE s

\* "_".join(s.split()) of a stripped s
RECURSIVE JoinWords(_)
JoinWords(s) ==
    IF s = <<>> THEN <<>>
    ELSE IF s[1] # " " THEN <<s[1]>> \o JoinWords(Tail(s))
    ELSE IF Len(s) > 1 /\ s[2] = " " THEN JoinWords(Tail(s))
    ELSE <<"_">> \o JoinWords(Tail(s))

\* clean_bridge_type of create_output_path
CleanBridgeType(bridge_type) ==
    JoinWords(Strip(SelectSeq(bridge_type, LAMBDA c : c \in KeptChars)))

\* a key that holds the date only
OutputKey_DateOnly(date_str, bridge_type) == date_str

\* key = f"{date_str}_{bridge_type}"
OutputKey(date_str, bridge_type) == date_str \o <<"_">> \o bridge_type

\* f"{serial_number:03d}"
Pad3(n) ==
    IF Len(IntStr(n)) >= 3 THEN IntStr(n)
    ELSE [i \in 1..(3 - Len(IntStr(n))) |-> "0"] \o IntStr(n)

\* json.load of the parse p of the file: {} when it fails
LoadedOrEmpty(p) == IF p.ok THEN p.v ELSE <<>>

\* _load_metadata
LoadMetadata(file) ==
    IF file.exists THEN LoadedOrEmpty(JsonLoads(file.text)) ELSE <<>>

\* _save_metadata: the file after json.dump(self.metadata, f, indent=2)
SaveMetadata(md) ==
    [exists |-> TRUE,
     text |-> JsonObject([i \in DOMAIN md |-> <<md[i][1], IntStr(md[i][2])>>], 0)]

\* self.metadata after "if key not in self.metadata: self.metadata[key] = 0"
WithKey(md, key) == IF key \in DictKeys(md) THEN md ELSE DictSet(md, key, 0)

\* self.metadata after _get_next_serial_number; the serial it returns is
\* the count of the key
NextMetadata(md, key) ==
    DictSet(WithKey(md, key), key, DictGet(WithKey(md, key), key) + 1)

BaseOutputDir == <<"o","u","t","p","u","t","s">>

\* now.strftime("%H%M%S")
Timestamp == <<"1","2","0","0","0","0">>

FileExtension == <<"p","d","f">>

\* date_folder and bridge_folder
DateFolder(date_str) == BaseOutputDir \o <<"/">> \o date_str
BridgeFolder(date_str, clean_bridge_type) ==
    DateFolder(date_str) \o <<"/">> \o clean_bridge_type

\* bridge_folder / filename
OutputPath(date_str, clean_bridge_type, serial_number) ==
    BridgeFolder(date_str, clean_bridge_type) \o <<"/">>
        \o date_str \o <<"_">> \o clean_bridge_type \o <<"_">>
        \o Pad3(serial_number) \o <<"_">> \o Timestamp \o <<".">> \o FileExtension

-----------------------------------------------------------------------------
(* SpecOutput: OutputManagers on one base directory, constructed at any      *)
(* time, issue output paths while the date may change.  issued is the        *)
(* history of the calls; the field loaded of a manager keeps the metadata    *)
(* it read when it was constructed.                                          *)

MaxCalls == 3

Managers == {1, 2}

Date1 == <<"2","0","2","6","-","0","1","-","0","1">>
Date2 == <<"2","0","2","6","-","0","1","-","0","2">>

\* "A B" and "A_B" clean to "A_B", "C!" cleans to "C"
BridgeTypes == { <<"A"," ","B">>, <<"A","_","B">>, <<"C","!">> }

NoFile == [exists |-> FALSE, text |-> <<>>]

\* the metadata file left by earlier runs: none, a truncated one, and files
\* as _save_metadata writes them
MetadataFiles ==
    { NoFile,
      [exists |-> TRUE, text |-> <<"{">>],
      SaveMetadata(<<>>),
      SaveMetadata(<< <<OutputKey(Date1, <<"A","_","B">>), 2>> >>),
      SaveMetadata(<< <<OutputKey(Date1, <<"A","_","B">>), 9>>,
                      <<OutputKey(Date1, <<"C">>), 1>> >>),
      SaveMetadata(<< <<OutputKey(Date1, <<"A","_","B">>), 999>> >>) }

NotConstructed == [open |-> FALSE, metadata |-> <<>>, loaded |-> <<>>]

InitOutput ==
    /\ pc = "output"
    /\ disk_metadata \in MetadataFiles
    /\ managers = [m \in Managers |-> NotConstructed]
    /\ today = Date1
    /\ issued = <<>>
    /\ folders = IF disk_metadata.exists THEN {BaseOutputDir} ELSE {}
    /\ ExtractorIdle
    /\ ExportIdle
    /\ ProcessorIdle

\* OutputManager(base_output_dir)
Construct(m) ==
    /\ ~managers[m].open
    /\ managers' = [managers EXCEPT ![m] =
                       [open |-> TRUE, metadata |-> LoadMetadata(disk_metadata),
                        loaded |-> LoadMetadata(disk_metadata)]]
    /\ folders' = folders \cup {BaseOutputDir}
    /\ UNCHANGED <<extractor_vars, export_vars, processor_vars, disk_metadata,
                   today, issued>>

\* create_output_path(bridge_type) on manager m
CreateOutputPath(m, bridge_type) ==
    /\ managers[m].open
    /\ Len(issued) < MaxCalls
    /\ managers' = [managers EXCEPT ![m].metadata =
                       NextMetadata(@, OutputKey(today, CleanBridgeType(bridge_type)))]
    /\ disk_metadata' = SaveMetadata(managers'[m].metadata)
    /\ folders' = folders \cup {DateFolder(today),
                                BridgeFolder(today, CleanBridgeType(bridge_type))}
    /\ issued' = Append(issued,
           [manager |-> m, bridge_type |-> bridge_type, date |-> today,
            path |-> OutputPath(today, CleanBridgeType(bridge_type),
                         DictGet(managers'[m].metadata,
                                 OutputKey(today, CleanBridgeType(bridge_type))))])
    /\ UNCHANGED <<extractor_vars, export_vars, processor_vars, today>>

\* midnight passes
AdvanceDate ==
    /\ today = Date1
    /\ today' = Date2
    /\ UNCHANGED <<extractor_vars, export_vars, processor_vars, disk_metadata,
                   managers, issued,
                   folders>>

NextOutput ==
    \/ \E m \in Managers : Construct(m)
    \/ \E m \in Managers : \E bridge_type \in BridgeTypes :
           CreateOutputPath(m, bridge_type)
    \/ AdvanceDate

SpecOutput == InitOutput /\ [][NextOutput]_vars

-----------------------------------------------------------------------------
(* ExcelProcessor: extract_calculation_logic, validate_formulas and          *)
(* create_master_formula_mapping.  validate_formulas is modelled call by     *)
(* call: frames is the stack of the calls in progress, the loop of           *)
(* _check_circular_reference at the bottom, the calls of has_circular_ref    *)
(* above it.                                                                 *)

\* re.findall(r'[A-Z]+\d+', s) from position i on
RECURSIVE GetReferences(_, _)
GetReferences(s, i) ==
    IF i > Len(s) THEN <<>>
    ELSE IF MatchCell(s, i) = 0 THEN GetReferences(s, i + 1)
    ELSE <<SubSeq(s, i, MatchCell(s, i) - 1)>>
             \o GetReferences(s, MatchCell(s, i))

\* the dependencies keyed by the first referenced cell in place of the formula
\* cell
RECURSIVE AnalyzeFormulaDependencies_Reversed(_, _)
AnalyzeFormulaDependencies_Reversed(formulas, k) ==
    IF k > Len(formulas) THEN <<>>
    ELSE (IF Range(GetReferences(formulas[k][2], 1)) \ {formulas[k][1]} # {}
          THEN << <<GetReferences(formulas[k][2], 1)[1], {formulas[k][1]}>> >>
          ELSE <<>>)
         \o AnalyzeFormulaDependencies_Reversed(formulas, k + 1)

\* _analyze_formula_dependencies(formulas) from formula k on: the dependencies
\* dict as the sequence of <<cell_ref, referenced cells>>, the list(set(...))
\* of the referenced cells as a set
RECURSIVE AnalyzeFormulaDependencies(_, _)
AnalyzeFormulaDependencies(formulas, k) ==
    IF k > Len(formulas) THEN <<>>
    ELSE (IF Range(GetReferences(formulas[k][2], 1)) \ {formulas[k][1]} # {}
          THEN << <<formulas[k][1],
                    Range(GetReferences(formulas[k][2], 1)) \ {formulas[k][1]}>> >>
          ELSE <<>>)
         \o AnalyzeFormulaDependencies(formulas, k + 1)

\* calculation_logic['formula_dependencies']: sheet name -> dependencies
ExtractCalculationLogic(pd) ==
    [n \in DOMAIN pd.sheets |->
        <<pd.sheets[n].name, AnalyzeFormulaDependencies(pd.sheets[n].formulas, 1)>>]

\* ExcelProcessor._validate_formula_syntax
ProcessorFormulaSyntax(f) ==
    /\ Count(f, "(") = Count(f, ")")
    /\ StartsWith(f, <<"=">>)
    /\ \A i \in DOMAIN f : f[i] \notin {"#", "@", "&", "|"}

\* current_cell in formulas, and formulas[current_cell]
HasFormula(formulas, cell) == \E k \in DOMAIN formulas : formulas[k][1] = cell
FormulaOf(formulas, cell) ==
    formulas[CHOOSE k \in DOMAIN formulas : formulas[k][1] = cell][2]

\* visited.add(current_cell) left out
Visit_Forget(visited, current_cell) == visited

\* visited.add(current_cell)
Visit(visited, current_cell) == visited \cup {current_cell}

\* the frame of _check_circular_reference(cell_ref, formula, all_formulas) at
\* its loop over the references of formula
CheckFrame(cell_ref, f) ==
    [fn |-> "_check_circular_reference", current_cell |-> cell_ref,
     target_cell |-> cell_ref, visited |-> {}, entered |-> TRUE,
     references |-> GetReferences(f, 1), i |-> 1]

\* the frame of has_circular_ref(current_cell, target_cell, formulas, visited)
\* at its first statement
CallFrame(current_cell, target_cell, visited) ==
    [fn |-> "has_circular_ref", current_cell |-> current_cell,
     target_cell |-> target_cell, visited |-> visited, entered |-> FALSE,
     references |-> <<>>, i |-> 1]

Top == frames[Len(frames)]
Pop == SubSeq(frames, 1, Len(frames) - 1)

\* the formulas of the sheet validate_formulas is at
SheetFormulas == processed_data.sheets[formula_validation.sheet].formulas

\* validate_formulas(processed_data) has come to an end
FormulasValidated == pc = "formulas_validated"

\* the processed document of the workbook fd was extracted from: the same
\* sheets, formulas and values
ProcessedData(fd) ==
    [filename |-> <<"f",".","x","l","s","x">>,
     sheets |-> [n \in DOMAIN fd |->
                    [name |-> fd[n].name, formulas |-> fd[n].formulas,
                     values |-> fd[n].values]]]

\* the formula cells of a sheet in the order of iter_rows
RowOrder(cells) == SelectSeq(<<A1, B1, C1>>, LAMBDA c : c \in cells)

\* references per processed document
MaxDocumentRefs == 3

\* the number of references in the formulas from formula k on
RECURSIVE CountRefs(_, _)
CountRefs(refs, k) ==
    IF k > Len(refs) THEN 0 ELSE Len(refs[k]) + CountRefs(refs, k + 1)

\* a workbook of one sheet, Sheet1, has been read by the extractor and by the
\* processor
InitProcessor ==
    /\ pc = "loaded"
    /\ \E cells \in SUBSET Cells :
         \E refs \in [DOMAIN RowOrder(cells) -> SeqsUpTo(Cells, MaxRefs)] :
           \E vals \in SUBSET (Cells \ cells) :
             /\ CountRefs(refs, 1) <= MaxDocumentRefs
             /\ formula_data = <<SheetOf(Sheet1, RowOrder(cells), refs, vals)>>
    /\ processed_data = ProcessedData(formula_data)
    /\ formula = <<>>
    /\ context = NoContext
    /\ metadata = NoMetadata
    /\ previous_metadata = NoMetadata
    /\ result = NoResult
    /\ validation_results = NoValidation
    /\ target = NoTarget
    /\ json_output = <<>>
    /\ imported = <<>>
    /\ ProcessorIdle
    /\ OutputIdle

\* extract_calculation_logic(processed_data), after the extractor's
\* validation of the workbook
ExtractLogic ==
    /\ pc = "validated"
    /\ calculation_logic' = ExtractCalculationLogic(processed_data)
    /\ pc' = "logic_extracted"
    /\ UNCHANGED <<formula, context, metadata, previous_metadata, result,
                   formula_data, validation_results, target, export_vars,
                   output_vars, formula_validation, frames, multiple_files,
                   master_mapping>>

\* validate_formulas(processed_data) is called: its first statements
BeginValidateFormulas ==
    /\ pc = "logic_extracted"
    /\ formula_validation' =
           [sheet |-> 1, formula |-> 1, returned |-> "none",
            syntax_errors |-> <<>>, circular_references |-> <<>>,
            total_formulas |-> 0, valid_formulas |-> 0]
    /\ frames' = <<>>
    /\ pc' = "validating"
    /\ UNCHANGED <<formula, context, metadata, previous_metadata, result,
                   formula_data, validation_results, target, export_vars,
                   output_vars, calculation_logic, multiple_files,
                   master_mapping>>

\* what a step of validate_formulas leaves alone
ValidationStepUnchanged ==
    UNCHANGED <<formula, context, metadata, previous_metadata, result,
                formula_data, validation_results, target, export_vars,
                output_vars, calculation_logic, multiple_files, master_mapping>>

\* the loops over the sheets and over the formulas of a sheet: the next
\* formula is counted, its syntax validated and _check_circular_reference
\* called on it; after the last one the statistics are set
NextFormula ==
    /\ pc = "validating"
    /\ frames = <<>>
    /\ formula_validation.returned = "none"
    /\ IF formula_validation.sheet > Len(processed_data.sheets)
       THEN /\ pc' = "formulas_validated"
            /\ UNCHANGED <<formula_validation, frames>>
       ELSE IF formula_validation.formula > Len(SheetFormulas)
       THEN /\ formula_validation' =
                   [formula_validation EXCEPT !.sheet = @ + 1, !.formula = 1]
            /\ UNCHANGED <<pc, frames>>
       ELSE /\ formula_validation' =
                   [formula_validation EXCEPT
                       !.total_formulas = @ + 1,
                       !.valid_formulas =
                           IF ProcessorFormulaSyntax(
                                  SheetFormulas[formula_validation.formula][2])
                           THEN @ + 1 ELSE @,
                       !.syntax_errors =
                           IF ProcessorFormulaSyntax(
                                  SheetFormulas[formula_validation.formula][2])
                           THEN @
                           ELSE Append(@,
                                    [sheet |-> processed_data.sheets[
                                                   formula_validation.sheet].name,
                                     cell |-> SheetFormulas[
                                                   formula_validation.formula][1]])]
            /\ frames' = <<CheckFrame(SheetFormulas[formula_validation.formula][1],
                                      SheetFormulas[formula_validation.formula][2])>>
            /\ UNCHANGED pc
    /\ ValidationStepUnchanged

\* the first statements of has_circular_ref: it returns True on a visited
\* cell, False on a cell without a formula, and otherwise adds the cell to
\* visited and reads its references
Enter ==
    /\ pc = "validating"
    /\ frames # <<>>
    /\ ~Top.entered
    /\ IF Top.current_cell \in Top.visited
       THEN /\ frames' = Pop
            /\ formula_validation' = [formula_validation EXCEPT !.returned = "True"]
       ELSE IF ~HasFormula(SheetFormulas, Top.current_cell)
       THEN /\ frames' = Pop
            /\ formula_validation' = [formula_validation EXCEPT !.returned = "False"]
       ELSE /\ frames' =
                   [frames EXCEPT ![Len(frames)] =
                       [@ EXCEPT
                          !.visited = Visit(@, Top.current_cell),
                          !.entered = TRUE,
                          !.references =
                              GetReferences(
                                  FormulaOf(SheetFormulas, Top.current_cell), 1)]]
            /\ UNCHANGED formula_validation
    /\ UNCHANGED pc
    /\ ValidationStepUnchanged

\* one turn of the loop over the references in the call on top: after the
\* last reference the call returns False; has_circular_ref returns True on a
\* reference to the target cell; otherwise has_circular_ref is called on the
\* reference, with a copy of visited or, from _check_circular_reference, with
\* an empty set
Loop ==
    /\ pc = "validating"
    /\ frames # <<>>
    /\ Top.entered
    /\ formula_validation.returned = "none"
    /\ IF Top.i > Len(Top.references)
       THEN /\ frames' = Pop
            /\ formula_validation' = [formula_validation EXCEPT !.returned = "False"]
       ELSE IF Top.fn = "has_circular_ref"
               /\ Top.references[Top.i] = Top.target_cell
       THEN /\ frames' = Pop
            /\ formula_validation' = [formula_validation EXCEPT !.returned = "True"]
       ELSE /\ frames' = Append(frames,
                             CallFrame(Top.references[Top.i], Top.target_cell,
                                       Top.visited))
            /\ UNCHANGED formula_validation
    /\ UNCHANGED pc
    /\ ValidationStepUnchanged

\* the call on top gets the value of the call it made: on True it returns
\* True, on False it goes on to its next reference
Return ==
    /\ pc = "validating"
    /\ frames # <<>>
    /\ formula_validation.returned # "none"
    /\ IF formula_validation.returned = "True"
       THEN frames' = Pop /\ UNCHANGED formula_validation
       ELSE /\ frames' = [frames EXCEPT ![Len(frames)].i = @ + 1]
            /\ formula_validation' = [formula_validation EXCEPT !.returned = "none"]
    /\ UNCHANGED pc
    /\ ValidationStepUnchanged

\* _check_circular_reference has returned: on True the cell is appended to
\* circular_references; the loop goes on to the next formula
Checked ==
    /\ pc = "validating"
    /\ frames = <<>>
    /\ formula_validation.returned # "none"
    /\ formula_validation' =
           [formula_validation EXCEPT
               !.circular_references =
                   IF formula_validation.returned = "True"
                   THEN Append(@, [sheet |-> processed_data.sheets[
                                                 formula_validation.sheet].name,
                                   cell |-> SheetFormulas[
                                                 formula_validation.formula][1]])
                   ELSE @,
               !.formula = @ + 1,
               !.returned = "none"]
    /\ UNCHANGED <<pc, frames>>
    /\ ValidationStepUnchanged

\* a step of validate_formulas
ValidationStep == NextFormula \/ Enter \/ Loop \/ Return \/ Checked

NextProcessor ==
    \/ Validate
    \/ ExtractLogic
    \/ BeginValidateFormulas
    \/ ValidationStep

SpecProcessor == InitProcessor /\ [][NextProcessor]_vars

\* validate_formulas, once called, runs on: when it can take a step it takes
\* one
FairSpecProcessor == SpecProcessor /\ WF_vars(ValidationStep)

-----------------------------------------------------------------------------
(* ExcelProcessor.create_master_formula_mapping on a list of processed       *)
(* documents.  The documents hold no values, so integration_points is empty. *)

\* f"{filename}#{sheet_name}!{cell_ref}"
GlobalRef(filename, sheet_name, cell_ref) ==
    filename \o <<"#">> \o sheet_name \o <<"!">> \o cell_ref

\* the loops that collect the formulas, from formula k of sheet n of document
\* d on, into global_formulas
RECURSIVE CollectFormulas(_, _, _, _, _)
CollectFormulas(files, d, n, k, global_formulas) ==
    IF d > Len(files) THEN global_formulas
    ELSE IF n > Len(files[d].sheets)
    THEN CollectFormulas(files, d + 1, 1, 1, global_formulas)
    ELSE IF k > Len(files[d].sheets[n].formulas)
    THEN CollectFormulas(files, d, n + 1, 1, global_formulas)
    ELSE CollectFormulas(files, d, n, k + 1,
             DictSet(global_formulas,
                     GlobalRef(files[d].filename, files[d].sheets[n].name,
                               files[d].sheets[n].formulas[k][1]),
                     [formula |-> files[d].sheets[n].formulas[k][2],
                      source_file |-> files[d].filename,
                      sheet |-> files[d].sheets[n].name,
                      cell |-> files[d].sheets[n].formulas[k][1]]))

CreateMasterFormulaMapping(files) ==
    [global_formulas |-> CollectFormulas(files, 1, 1, 1, <<>>),
     integration_points |-> <<>>,
     files_processed |-> Len(files)]

\* documents given to create_master_formula_mapping
MaxFiles == 2

\* file names and sheet names: both may hold "#"
MasterFilenames == { <<"a">>, <<"a","#","b">> }
MasterSheetNames == { <<"c">>, <<"b","#","c">> }

\* the formula cells of a sheet
MasterCells == { <<>>, <<A1>>, <<A1, B1>> }

\* the processed document named filename whose sheets are names, sheet n with
\* the formula cells cells[n], every formula with the text
MasterDocument(filename, names, cells, text) ==
    [filename |-> filename,
     sheets |-> [n \in DOMAIN names |->
                    [name |-> names[n],
                     formulas |-> [k \in DOMAIN cells[n] |-> <<cells[n][k], text>>]]]]

\* the cells of every sheet are given
SameLength(names, cells) == Len(names) = Len(cells)

\* the documents whose formulas have the text
MasterDocuments(text) ==
    {MasterDocument(filename, nc[1], nc[2], text) :
        filename \in MasterFilenames,
        nc \in {x \in (InjectiveSeqsUpTo(MasterSheetNames, MaxSheets) \ {<<>>})
                        \X SeqsUpTo(MasterCells, MaxSheets) :
                  SameLength(x[1], x[2])}}

\* one document with the formulas "=1", or that one and one with the
\* formulas "=2"
InitMaster ==
    /\ pc = "files_processed"
    /\ \E first \in MasterDocuments(<<"=","1">>) :
         \E others \in SeqsUpTo(MasterDocuments(<<"=","2">>), MaxFiles - 1) :
           multiple_files = <<first>> \o others
    /\ master_mapping = <<>>
    /\ calculation_logic = <<>>
    /\ formula_validation = <<>>
    /\ frames = <<>>
    /\ ExtractorIdle
    /\ ExportIdle
    /\ OutputIdle

\* create_master_formula_mapping(multiple_files)
CreateMapping ==
    /\ pc = "files_processed"
    /\ master_mapping' = CreateMasterFormulaMapping(multiple_files)
    /\ pc' = "mapped"
    /\ UNCHANGED <<formula, context, metadata, previous_metadata, result,
                   formula_data, validation_results, target, export_vars,
                   output_vars, calculation_logic, formula_validation, frames,
                   multiple_files>>

NextMaster == CreateMapping

SpecMaster == InitMaster /\ [][NextMaster]_vars

-----------------------------------------------------------------------------
(* Properties.  Graph notions used by them. *)

Validated == pc \in {"validated", "evaluated"}

Dependencies == BuildDependencies(formula_data, 1, 1)

Successors(deps, node) == Range(Neighbours(deps, node))

\* the nodes reached from the nodes of S by zero or more edges
RECURSIVE ReachableFrom(_, _)
ReachableFrom(deps, S) ==
    LET T == S \cup UNION {Successors(deps, x) : x \in S}
    IN  IF T = S THEN S ELSE ReachableFrom(deps, T)

\* node lies on a cycle: it reaches itself by one or more edges
OnCycle(deps, node) == node \in ReachableFrom(deps, Successors(deps, node))

FormulaNodes(deps) == {deps[i][1] : i \in DOMAIN deps}

\* the nodes of the reported cycles
ReportedNodes ==
    UNION {Range(validation_results.circular_references[i]) :
               i \in DOMAIN validation_results.circular_references}

\* the sheet name of a full address
SheetPart(address) == SubSeq(address, 1, FindChar(address, 1, "!") - 1)

\* C1: after validation, every node of the dependency graph that lies on a
\* cycle (here also the nodes of A -> B -> C -> A) is a node of at least one
\* reported cycle.
C1_EveryCycleNodeReported ==
    Validated =>
        \A node \in FormulaNodes(Dependencies) :
            OnCycle(Dependencies, node) => node \in ReportedNodes

\* C2: evaluate_formula answers every formula and context with a value (a
\* result or an "#ERROR" value); no exception reaches the caller.
C2_NeverRaises == pc = "evaluated" => result.kind = "returned"

\* the references of f as the substitution recognises them
ReferencesOf(f) ==
    IF f = <<>> \/ ~StartsWith(f, <<"=">>) THEN {}
    ELSE DefaultedFrom(SubSeq(f, 2, Len(f)), 1, <<>>)

\* ctx with every reference of f that it lacks given the value 0
ZeroFilled(f, ctx) ==
    Dict([c \in DOMAIN ctx.cells \cup ReferencesOf(f) |->
             IF c \in DOMAIN ctx.cells THEN ctx.cells[c] ELSE MkInt(0)])

\* C3: with any context, an empty or absent one too, the outcome is the one
\* of the formula with 0 in place of every reference the context lacks.
C3_AbsentReferenceIsZero ==
    pc = "evaluated" =>
        result = EvaluateFormula(formula, ZeroFilled(formula, context))

\* C4: an outcome reached with the fallback can be told from the outcome of
\* the same formula evaluated from real data alone: no context that holds
\* every reference gives the same outcome.
C4_FallbackRecorded ==
    pc = "evaluated" /\ DefaultedReferences(formula, context) # {} =>
        \A real \in Contexts :
            /\ real.given
            /\ ReferencesOf(formula) \subseteq DOMAIN real.cells
            => EvaluateFormula(formula, real) # result

\* the value of the function formulas
ExpectedValue(f) ==
    CASE f = SqrtFormula -> MkFloat(4, 1)
      [] f = AbsFormula -> MkInt(16)
      [] f = SumFormula -> MkInt(16)
      [] f = IfFormula -> MkStr(<<"S","A","F","E">>)

\* C5: a well-formed call of a supported function with literal arguments
\* evaluates to the function's value: =SQRT(16) to 4, =IF(1>0,"SAFE","UNSAFE")
\* to "SAFE".
C5_SupportedFunctionsEvaluate ==
    pc = "evaluated" /\ formula \in FunctionFormulas =>
        result = Returned(ExpectedValue(formula))

\* C6: evaluating the formula of a cell that lies on a reported cycle answers
\* the error value UnresolvedReference, never a computed value.
C6_CycleCellsUnresolved ==
    pc = "evaluated" /\ FullAddress(target[1], target[2]) \in ReportedNodes =>
        /\ result.kind = "returned"
        /\ result.value.t = "error"
        /\ result.value.cause = "UnresolvedReference"

\* the one-sheet document whose only formulas are A1: =B1+1 and B1: =A1+1
TwoCellCycleDocument ==
    /\ Len(formula_data) = 1
    /\ Len(formula_data[1].formulas) = 2
    /\ Range(formula_data[1].formulas) =
           {<<A1, FormulaText(<<B1>>)>>, <<B1, FormulaText(<<A1>>)>>}

\* C7: for the document A1: =B1+1, B1: =A1+1, in either order of the two
\* cells, exactly one cycle is reported and it holds both A1 and B1.
C7_TwoCellCycle ==
    Validated /\ TwoCellCycleDocument =>
        /\ Len(validation_results.circular_references) = 1
        /\ {FullAddress(Sheet1, A1), FullAddress(Sheet1, B1)}
               \subseteq Range(validation_results.circular_references[1])

\* the document of C7 validated, B1 enumerated first
C7_Witness ==
    /\ Validated
    /\ TwoCellCycleDocument
    /\ formula_data[1].formulas[1][1] = B1
    /\ Len(validation_results.circular_references) = 1

\* the edges of the dependency graph that leave their sheet
CrossSheetEdges ==
    {e \in UNION {{<<Dependencies[i][1], nb>> : nb \in Range(Dependencies[i][2])}
                      : i \in DOMAIN Dependencies} :
        SheetPart(e[1]) # SheetPart(e[2])}

\* Sheet2!A1 refers to Sheet1!B1, which holds a value and no formula; there
\* is no other formula
CrossSheetScenario ==
    /\ Len(formula_data) = 2
    /\ \A n \in DOMAIN formula_data :
         IF formula_data[n].name = Sheet1
         THEN formula_data[n].formulas = <<>> /\ B1 \in formula_data[n].values
         ELSE formula_data[n].formulas =
                  << <<A1, FormulaText(<<FullAddress(Sheet1, B1)>>)>> >>

\* C8: a qualified reference T!c in a formula of sheet S, T # S, gives the
\* edge S!cell -> T!c; for Sheet2!A1 referring to the value Sheet1!B1 there is
\* exactly one cross-sheet edge, no cycle, and valid_formulas is 1.
C8_CrossSheetEdge ==
    Validated =>
        /\ \A n \in DOMAIN formula_data :
             \A k \in DOMAIN formula_data[n].formulas :
               \A m \in Range(FindCrossSheetMatches(formula_data[n].formulas[k][2], 1)) :
                 m[1] # formula_data[n].name =>
                     FullAddress(m[1], m[2]) \in
                         Successors(Dependencies,
                             FullAddress(formula_data[n].name,
                                         formula_data[n].formulas[k][1]))
        /\ CrossSheetScenario =>
             /\ Cardinality(CrossSheetEdges) = 1
             /\ validation_results.circular_references = <<>>
             /\ validation_results.valid_formulas = 1

NoReferenceTokens ==
    metadata.referenced_cells = <<>> /\ metadata.referenced_ranges = <<>>

\* C10 as claimed: without reference tokens the score is the operator count
\* and the type is Simple, unless a function token makes the type Function.
C10_NoReferencesSimple ==
    pc = "analyzed" /\ NoReferenceTokens =>
        IF metadata.excel_functions = {}
        THEN /\ metadata.complexity_score = Cardinality(metadata.operators)
             /\ metadata.formula_type = "simple"
        ELSE metadata.formula_type = "function"

\* C10 as amended: without reference and function tokens the score is the
\* number of distinct operators and the type is Simple up to 3 of them and
\* ComplexArithmetic above; with a function token the type is Function.
C10_NoReferencesAmended ==
    pc = "analyzed" /\ NoReferenceTokens =>
        IF metadata.excel_functions = {}
        THEN /\ metadata.complexity_score = Cardinality(metadata.operators)
             /\ metadata.formula_type =
                    IF Cardinality(metadata.operators) > 3
                    THEN "complex_arithmetic" ELSE "simple"
        ELSE metadata.formula_type = "function"

\* no reference, no function, four distinct operators
C10_Witness ==
    /\ pc = "analyzed"
    /\ StartsWith(formula, <<"=">>)
    /\ NoReferenceTokens
    /\ metadata.excel_functions = {}
    /\ Cardinality(metadata.operators) = 4
    /\ metadata.complexity_score = 4
    /\ metadata.formula_type = "complex_arithmetic"

\* C11: the complexity score is 1 x |referenced_cells| + 2 x |referenced_ranges|
\* + 3 x |functions| + 1 x |operators|, each term the size of a set: a cell
\* or range that occurs several times in the formula counts once.
C11_ScoreCountsSets ==
    pc = "analyzed" =>
        metadata.complexity_score =
            Cardinality(Range(metadata.referenced_cells))
                + 2 * Cardinality(Range(metadata.referenced_ranges))
                + 3 * Cardinality(metadata.excel_functions)
                + Cardinality(metadata.operators)

\* a text with no character that can be part of a reference, function,
\* operator or constant token
NoTokenText(f) ==
    \A i \in DOMAIN f :
        i > 1 => f[i] \notin Upper \cup Digit \cup OperatorChars

NoTokensRecorded(m) ==
    /\ m.referenced_cells = <<>>
    /\ m.referenced_ranges = <<>>
    /\ m.excel_functions = {}
    /\ m.operators = {}
    /\ m.constants = <<>>
    /\ m.complexity_score = 0
    /\ m.formula_type = "simple"

\* C12: _analyze_formula never raises; for a text that does not begin with
\* "=" and for a formula text without any recognisable token it returns
\* empty reference, range, function, operator and constant lists, score 0
\* and type Simple.
C12_AnalysisNeverFails ==
    /\ pc # "analyze_raised"
    /\ pc = "analyzed" /\ (~StartsWith(formula, <<"=">>) \/ NoTokenText(formula))
           => NoTokensRecorded(metadata)

\* a text with reference and function characters but no leading "="
C12_Witness ==
    /\ pc = "analyzed"
    /\ ~StartsWith(formula, <<"=">>)
    /\ FindFunctionMatches(formula, 1) # <<>>
    /\ FindCellMatches(formula, 1) # <<>>
    /\ NoTokensRecorded(metadata)

FormulaCells ==
    {c \in (DOMAIN processed_data.sheets) \X (1..MaxSheetFormulas) :
        c[2] \in DOMAIN processed_data.sheets[c[1]].formulas}

QualifiedAddress(c) ==
    processed_data.sheets[c[1]].name \o <<"!">>
        \o processed_data.sheets[c[1]].formulas[c[2]][1]

\* C14: the exported text, read back, holds under "formulas" exactly the
\* qualified_address -> formula_text map of the document: one key per formula
\* cell, distinct keys for distinct (sheet, cell) pairs, every text unchanged.
C14_ExportRoundTrip ==
    pc = "imported" =>
        /\ imported.ok
        /\ DictKeys(imported.formulas) = {QualifiedAddress(c) : c \in FormulaCells}
        /\ Len(imported.formulas) = Cardinality(FormulaCells)
        /\ \A c \in FormulaCells :
             DictGet(imported.formulas, QualifiedAddress(c))
                 = processed_data.sheets[c[1]].formulas[c[2]][2]

\* two sheets, one named with "!", one with a quote and a backslash, each with
\* formulas, one with a quote or a backslash in its text, have been read back
C14_Witness ==
    /\ pc = "imported"
    /\ Len(processed_data.sheets) = 2
    /\ \E n \in 1..2 : processed_data.sheets[n].name = <<"S","!","A","1">>
    /\ \E n \in 1..2 : processed_data.sheets[n].name = <<"T","\"","\\">>
    /\ \A n \in 1..2 : Len(processed_data.sheets[n].formulas) = 2
    /\ \E n \in 1..2 : processed_data.sheets[n].formulas[1][2] = <<"=","\\","\"">>

\* the fully-qualified addresses a formula of sheet refers to: T!c as written,
\* sheet!c for a reference c written without a sheet
QualifiedReferences(sheet, f) ==
    {FullAddress(m[1], m[2]) : m \in Range(FindCrossSheetMatches(f, 2))}
    \cup {FullAddress(sheet, SubSeq(f, i, MatchCell(f, i) - 1)) :
            i \in {j \in 2..Len(f) :
                     MatchCell(f, j) # 0 /\ f[j - 1] \notin Upper \cup {"!"}}}

\* the document holds a value or a formula at the fully-qualified address
HoldsSomething(address) ==
    \E n \in DOMAIN formula_data :
        /\ formula_data[n].name = SheetPart(address)
        /\ SubSeq(address, FindChar(address, 1, "!") + 1, Len(address))
               \in formula_data[n].values

\* the formulas <<sheet number, formula number>> of the document
DocumentFormulas ==
    {c \in (DOMAIN formula_data) \X (1..3) :
        c[2] \in DOMAIN formula_data[c[1]].formulas}

\* formula c refers to a fully-qualified address that holds nothing
RefersToNothing(c) ==
    \E r \in QualifiedReferences(formula_data[c[1]].name,
                                 formula_data[c[1]].formulas[c[2]][2]) :
        ~HoldsSomething(r)

\* C15: a formula (of valid syntax) is recorded in missing_references, and
\* counted as a warning, exactly when it refers to a cell whose
\* fully-qualified address holds neither a value nor a formula.
C15_MissingReferenceWarned ==
    Validated =>
        /\ \A c \in DocumentFormulas :
             ValidateFormulaSyntax(formula_data[c[1]].formulas[c[2]][2]) =>
                 (RefersToNothing(c) <=>
                     \E i \in DOMAIN validation_results.missing_references :
                         /\ validation_results.missing_references[i].sheet
                                = formula_data[c[1]].name
                         /\ validation_results.missing_references[i].cell
                                = formula_data[c[1]].formulas[c[2]][1])
        /\ validation_results.warning_formulas =
               Cardinality({c \in DocumentFormulas :
                   /\ ValidateFormulaSyntax(formula_data[c[1]].formulas[c[2]][2])
                   /\ RefersToNothing(c)})

\* every ")" of f closes a "(" before it and every "(" is closed
Balanced(f) ==
    /\ Count(f, "(") = Count(f, ")")
    /\ \A i \in DOMAIN f : Count(SubSeq(f, 1, i), ")") <= Count(SubSeq(f, 1, i), "(")

Malformed(f) == ~Balanced(f) \/ \E i \in DOMAIN f : f[i] \notin ValidChars

\* C16: every formula with unbalanced delimiters or a disallowed character is
\* recorded in syntax_errors and counted in error_formulas, and the validation
\* goes on to the other formulas.
C16_MalformedRecorded ==
    Validated =>
        /\ \A c \in DocumentFormulas :
             Malformed(formula_data[c[1]].formulas[c[2]][2]) =>
                 \E i \in DOMAIN validation_results.syntax_errors :
                     /\ validation_results.syntax_errors[i].sheet
                            = formula_data[c[1]].name
                     /\ validation_results.syntax_errors[i].cell
                            = formula_data[c[1]].formulas[c[2]][1]
        /\ validation_results.error_formulas =
               Cardinality({c \in DocumentFormulas :
                               Malformed(formula_data[c[1]].formulas[c[2]][2])})
        /\ validation_results.total_formulas = Cardinality(DocumentFormulas)

\* C20: reporting a cycle does not end the traversal of its root: when the
\* traversal started on a root is over, every node that can be reached from
\* the root has been visited.
C20_TraversalContinues ==
    Validated =>
        \A i \in DOMAIN RootTraversals(Dependencies, 1, {}) :
            ReachableFrom(Dependencies, {RootTraversals(Dependencies, 1, {})[i][1]})
                \subseteq RootTraversals(Dependencies, 1, {})[i][2]

\* C17: a formula that calls a function outside the supported set fails as a
\* whole: the outcome is an error value, never a number, a string or a boolean
\* that comes from evaluating a part of it.
C17_UnsupportedFunctionFails ==
    pc = "evaluated" /\ UnsupportedCall \in Range(formula) =>
        result.kind = "returned" /\ result.value.t = "error"

\* the evaluation called into the host: the interpreter's exit was requested
HostReached == result.kind = "raised" /\ result.exc = "SystemExit"

\* C18: no evaluation, whatever the formula and the context values, reaches
\* the host.
C18_NoHostAccess == pc = "evaluated" => ~HostReached

\* the calls up to call number i made on the manager of call i for the date
\* and the cleaned bridge type of call i
CallsLike(i) ==
    {j \in 1..i :
        /\ issued[j].manager = issued[i].manager
        /\ issued[j].date = issued[i].date
        /\ CleanBridgeType(issued[j].bridge_type)
               = CleanBridgeType(issued[i].bridge_type)}

\* the count the manager of call i read at its construction for the key of
\* call i, 0 when it read none
LoadedCount(i) ==
    IF \E n \in DOMAIN managers[issued[i].manager].loaded :
           managers[issued[i].manager].loaded[n][1]
               = issued[i].date \o <<"_">> \o CleanBridgeType(issued[i].bridge_type)
    THEN DictGet(managers[issued[i].manager].loaded,
                 issued[i].date \o <<"_">> \o CleanBridgeType(issued[i].bridge_type))
    ELSE 0

\* the path of call i if it carries serial number n
PathWithSerial(i, n) ==
    OutputPath(issued[i].date, CleanBridgeType(issued[i].bridge_type), n)

\* C19 as stated: the k-th call of a manager for a date and a cleaned bridge
\* type returns the path with serial number k.
C19_SerialsStartAtOne ==
    \A i \in DOMAIN issued :
        issued[i].path = PathWithSerial(i, Cardinality(CallsLike(i)))

\* C19, amended: the k-th call of a manager for a date and a cleaned bridge
\* type returns the path with serial number s0 + k, s0 being the count the
\* manager read for that key at its construction (0 without one); calls for
\* another bridge type or date do not count.
C19_SerialsContinue ==
    \A i \in DOMAIN issued :
        issued[i].path = PathWithSerial(i, LoadedCount(i) + Cardinality(CallsLike(i)))

\* one manager that read the count 9 for a key was called for the key, for
\* another bridge type, and for the key again
C19_Witness ==
    /\ Len(issued) = 3
    /\ \A i \in 1..3 : issued[i].manager = issued[1].manager /\ issued[i].date = Date1
    /\ issued[1].bridge_type = <<"A"," ","B">>
    /\ issued[2].bridge_type = <<"C","!">>
    /\ issued[3].bridge_type = <<"A","_","B">>
    /\ LoadedCount(1) = 9
    /\ Cardinality(CallsLike(3)) = 2

\* the reported cycles
ReportedCycles == validation_results.circular_references

TrueReferences(address) ==
    UNION {QualifiedReferences(formula_data[c[1]].name,
                               formula_data[c[1]].formulas[c[2]][2]) :
             c \in {d \in DocumentFormulas :
                      FullAddress(formula_data[d[1]].name,
                                  formula_data[d[1]].formulas[d[2]][1]) = address}}

\* C25: cycle reports are sound: in every reported cycle each cell's formula
\* refers to the next cell of the cycle, so a formula that only reads the cell
\* with its own address on another sheet (Sheet2!A1: =Sheet1!A1 with Sheet1!A1
\* a plain value) is not reported as circular.
C25_CycleReportsSound ==
    Validated =>
        \A c \in DOMAIN ReportedCycles :
            \A i \in 1..(Len(ReportedCycles[c]) - 1) :
                ReportedCycles[c][i + 1] \in TrueReferences(ReportedCycles[c][i])

\* the entries of a list of validation_results that name formula c
EntriesOf(list, c) ==
    {i \in DOMAIN list :
        /\ list[i].sheet = formula_data[c[1]].name
        /\ list[i].cell = formula_data[c[1]].formulas[c[2]][1]}

\* C26: validate_formula_integrity classifies every formula exactly once:
\* total_formulas = valid_formulas + error_formulas + warning_formulas,
\* error_formulas is the number of syntax_errors entries, warning_formulas the
\* number of missing_references entries, and no formula is in both lists.
C26_ClassifiedExactlyOnce ==
    Validated =>
        /\ validation_results.total_formulas = Cardinality(DocumentFormulas)
        /\ validation_results.total_formulas =
               validation_results.valid_formulas
                   + validation_results.error_formulas
                   + validation_results.warning_formulas
        /\ validation_results.error_formulas
               = Len(validation_results.syntax_errors)
        /\ validation_results.warning_formulas
               = Len(validation_results.missing_references)
        /\ \A c \in DocumentFormulas :
               Cardinality(EntriesOf(validation_results.syntax_errors, c))
                   + Cardinality(EntriesOf(validation_results.missing_references, c))
                   <= 1

\* a document with a formula of invalid syntax and a formula of valid syntax
\* that refers to a cell holding nothing
C26_Witness ==
    /\ Validated
    /\ Len(validation_results.syntax_errors) = 1
    /\ Len(validation_results.missing_references) = 1
    /\ validation_results.total_formulas = 2

\* the positions of text where a cell reference <column letters><row number>
\* starts
CellTokens(text) ==
    {i \in DOMAIN text :
        MatchCell(text, i) # 0 /\ (i = 1 \/ text[i - 1] \notin Upper)}

\* the positions where an occurrence of <cell>:<cell> starts
RangeOccurrences(text) ==
    {i \in CellTokens(text) :
        /\ MatchCell(text, i) <= Len(text)
        /\ text[MatchCell(text, i)] = ":"
        /\ MatchCell(text, MatchCell(text, i) + 1) # 0}

\* the positions of the cell references that are an endpoint of a range
RangeEndpoints(text) ==
    RangeOccurrences(text)
        \cup {MatchCell(text, i) + 1 : i \in RangeOccurrences(text)}

\* C23: for every formula, each occurrence of <cell>:<cell> adds one entry
\* to referenced_ranges, and a cell reference that is an endpoint of a range
\* adds no entry to referenced_cells: only the other cell references do.
C23_RangeEndpointsOnlyInRanges ==
    pc = "analyzed" /\ StartsWith(formula, <<"=">>) =>
        /\ Len(metadata.referenced_ranges)
               = Cardinality(RangeOccurrences(Tail(formula)))
        /\ Len(metadata.referenced_cells)
               = Cardinality(CellTokens(Tail(formula))
                                 \ RangeEndpoints(Tail(formula)))

\* the number of occurrences of <cell>:<cell> chained before position i, each
\* one starting at the second endpoint of the one before it
RECURSIVE ChainedBefore(_, _)
ChainedBefore(text, i) ==
    IF \E j \in RangeOccurrences(text) : MatchCell(text, j) + 1 = i
    THEN 1 + ChainedBefore(text,
                 CHOOSE j \in RangeOccurrences(text) : MatchCell(text, j) + 1 = i)
    ELSE 0

\* the occurrences of <cell>:<cell> that do not overlap an occurrence taken
\* before them: in c1:c2:c3:c4 the first and the third
DisjointRanges(text) ==
    {i \in RangeOccurrences(text) : ChainedBefore(text, i) % 2 = 0}

\* C23, amended: each occurrence of <cell>:<cell> that does not overlap an
\* occurrence taken before it adds one entry to referenced_ranges and neither
\* of its endpoints to referenced_cells; every other cell reference adds one
\* entry to referenced_cells.
C23_DisjointRangesOnly ==
    pc = "analyzed" /\ StartsWith(formula, <<"=">>) =>
        /\ Len(metadata.referenced_ranges)
               = Cardinality(DisjointRanges(Tail(formula)))
        /\ Len(metadata.referenced_cells)
               = Cardinality(CellTokens(Tail(formula))
                     \ (DisjointRanges(Tail(formula))
                          \cup {MatchCell(Tail(formula), i) + 1 :
                                  i \in DisjointRanges(Tail(formula))}))

\* =A1:A1:A1 has been analysed: one range, and the third cell on its own
C23_Witness ==
    /\ pc = "analyzed"
    /\ formula = <<"=","A","1",":","A","1",":","A","1">>
    /\ metadata.referenced_ranges = << <<"A","1",":","A","1">> >>
    /\ metadata.referenced_cells = <<A1>>

\* the two corner cells of the range text c:d
Corners(r) ==
    << SubSeq(r, 1, FindChar(r, 1, ":") - 1),
       SubSeq(r, FindChar(r, 1, ":") + 1, Len(r)) >>

\* the dependency graph with, for every formula, its referenced cells and the
\* two corners of each of its referenced ranges
RECURSIVE CornerDependencies(_, _, _)
CornerDependencies(fd, n, k) ==
    IF n > Len(fd) THEN <<>>
    ELSE IF k > Len(fd[n].formulas) THEN CornerDependencies(fd, n + 1, 1)
    ELSE LET cell_address == fd[n].formulas[k][1]
             md == fd[n].formula_metadata[cell_address]
             cells == md.referenced_cells
                          \o Flatten([i \in DOMAIN md.referenced_ranges |->
                                         Corners(md.referenced_ranges[i])])
         IN  << <<FullAddress(fd[n].name, cell_address),
                  [i \in DOMAIN cells |-> FullAddress(fd[n].name, cells[i])]>> >>
                 \o CornerDependencies(fd, n, k + 1)

\* C22: a range reference contributes its two corner cells as dependencies of
\* the formula cell: the dependency graph has an edge from the formula cell to
\* each corner of each of its ranges, and when a circular chain passes through
\* a range corner (A1: =SUM(B1:C1), B1: =A1) a cycle is reported.
C22_RangeCornersAreDependencies ==
    Validated =>
        /\ \A i \in DOMAIN Dependencies :
               Successors(CornerDependencies(formula_data, 1, 1), Dependencies[i][1])
                   \subseteq Successors(Dependencies, Dependencies[i][1])
        /\ (\E node \in FormulaNodes(Dependencies) :
                OnCycle(CornerDependencies(formula_data, 1, 1), node))
               => ReportedCycles # <<>>

\* C30: when two OutputManagers opened on the same base directory interleave
\* their create_output_path calls for the same date and bridge type, no
\* serial number is issued twice: two calls for one date and one cleaned
\* bridge type never return the path with the same serial number.
C30_NoSerialIssuedTwice ==
    \A i, j \in DOMAIN issued :
        /\ i < j
        /\ issued[i].date = issued[j].date
        /\ CleanBridgeType(issued[i].bridge_type)
               = CleanBridgeType(issued[j].bridge_type)
        => issued[i].path # issued[j].path

\* the fully-qualified addresses of the formula cells of the document
FormulaAddresses ==
    {FullAddress(formula_data[c[1]].name, formula_data[c[1]].formulas[c[2]][1]) :
        c \in DocumentFormulas}

\* C24: in the qualified graph of _detect_circular_references and in the
\* per-sheet map of _analyze_formula_dependencies every node with an outgoing
\* edge is a cell that holds a formula; a cell that holds only a value and a
\* referenced cell that does not exist have no outgoing edge.
C24_OnlyFormulaCellsHaveEdges ==
    pc = "logic_extracted" =>
        /\ \A i \in DOMAIN Dependencies :
               Dependencies[i][2] # <<>> => Dependencies[i][1] \in FormulaAddresses
        /\ \A n \in DOMAIN calculation_logic :
               \A i \in DOMAIN calculation_logic[n][2] :
                   calculation_logic[n][2][i][2] # {} =>
                       HasFormula(processed_data.sheets[n].formulas,
                                  calculation_logic[n][2][i][1])

\* both graphs have been built for a sheet whose only formula, in A1, refers
\* to B1, which holds a value, and to C1, which holds nothing
C24_Witness ==
    /\ pc = "logic_extracted"
    /\ Len(formula_data[1].formulas) = 1
    /\ formula_data[1].values = {A1, B1}
    /\ calculation_logic = << <<Sheet1, << <<A1, {B1, C1}>> >> >> >>
    /\ Range(Neighbours(Dependencies, FullAddress(Sheet1, A1)))
           = {FullAddress(Sheet1, B1), FullAddress(Sheet1, C1)}

\* the references between the cells of sheet n as get_references reads them
ReferenceGraph(n) ==
    [k \in DOMAIN processed_data.sheets[n].formulas |->
        <<processed_data.sheets[n].formulas[k][1],
          GetReferences(processed_data.sheets[n].formulas[k][2], 1)>>]

\* validate_formulas lists the cell of sheet n in circular_references
Listed(n, cell) ==
    \E i \in DOMAIN formula_validation.circular_references :
        /\ formula_validation.circular_references[i].sheet
               = processed_data.sheets[n].name
        /\ formula_validation.circular_references[i].cell = cell

\* C27: validate_formulas lists a formula cell in circular_references if and
\* only if the cell lies on a dependency cycle; a cell that only refers to
\* cells of a cycle, without being on one, is not listed.
C27_ListedIffOnCycle ==
    FormulasValidated =>
        \A n \in DOMAIN processed_data.sheets :
            \A k \in DOMAIN processed_data.sheets[n].formulas :
                Listed(n, processed_data.sheets[n].formulas[k][1])
                    <=> OnCycle(ReferenceGraph(n),
                                processed_data.sheets[n].formulas[k][1])

\* the calls of has_circular_ref in progress
HasCircularRefCalls == {j \in DOMAIN frames : frames[j].fn = "has_circular_ref"}

\* every call of has_circular_ref that went past its first statements has
\* added its cell, a formula cell, to the visited set its caller passed
VisitedGrows ==
    \A j \in HasCircularRefCalls :
        frames[j].entered =>
            /\ frames[j].current_cell \in frames[j].visited
            /\ frames[j].current_cell \notin frames[j - 1].visited
            /\ frames[j - 1].visited \subseteq frames[j].visited
            /\ \A c \in frames[j].visited :
                   HasFormula(processed_data.sheets[1].formulas, c)

\* the number of formula cells of the processed sheet
FormulaCellCount == Len(processed_data.sheets[1].formulas)

\* validate_formulas, once called, comes to its end
ValidateFormulasTerminates == (pc = "validating") ~> FormulasValidated

\* C28 as stated: validate_formulas terminates, every recursive step of
\* has_circular_ref returns or strictly enlarges the visited set along its
\* path, and the recursion depth is at most the number of formula cells.
C28_DepthWithinFormulaCells ==
    /\ [](pc = "validating" =>
            VisitedGrows /\ Cardinality(HasCircularRefCalls) <= FormulaCellCount)
    /\ ValidateFormulasTerminates

\* C28, amended: validate_formulas terminates, every call of has_circular_ref
\* returns at its first statements or strictly enlarges the visited set along
\* its path by a formula cell, and the recursion depth is at most the number
\* of formula cells plus one, the call on top being one that returns at once.
C28_DepthWithinFormulaCellsPlusOne ==
    /\ [](pc = "validating" =>
            /\ VisitedGrows
            /\ Cardinality({j \in HasCircularRefCalls : frames[j].entered})
                   <= FormulaCellCount
            /\ Cardinality(HasCircularRefCalls) <= FormulaCellCount + 1)
    /\ ValidateFormulasTerminates

\* validate_formulas has ended on a sheet whose formulas A1: =B1+1,
\* B1: =C1+1, C1: =B1+1 hold a cycle that does not pass through A1
C28_Witness ==
    /\ FormulasValidated
    /\ formula_validation.total_formulas = 3
    /\ GetReferences(FormulaOf(processed_data.sheets[1].formulas, A1), 1) = <<B1>>
    /\ GetReferences(FormulaOf(processed_data.sheets[1].formulas, B1), 1) = <<C1>>
    /\ GetReferences(FormulaOf(processed_data.sheets[1].formulas, C1), 1) = <<B1>>

\* the formula cells <<document, sheet, formula>> of the documents
MasterFormulaCells ==
    {c \in (DOMAIN multiple_files) \X (1..MaxSheets) \X (1..MaxSheetFormulas) :
        /\ c[2] \in DOMAIN multiple_files[c[1]].sheets
        /\ c[3] \in DOMAIN multiple_files[c[1]].sheets[c[2]].formulas}

\* the entry create_master_formula_mapping makes for formula cell c
MasterEntry(c) ==
    [formula |-> multiple_files[c[1]].sheets[c[2]].formulas[c[3]][2],
     source_file |-> multiple_files[c[1]].filename,
     sheet |-> multiple_files[c[1]].sheets[c[2]].name,
     cell |-> multiple_files[c[1]].sheets[c[2]].formulas[c[3]][1]]

\* C29: create_master_formula_mapping loses no formula: global_formulas holds
\* exactly one entry for each formula cell of each document, as many entries
\* as there are formulas, and no entry is overwritten by the formula of
\* another document, sheet or cell.
C29_NoFormulaLost ==
    pc = "mapped" =>
        /\ Len(master_mapping.global_formulas) = Cardinality(MasterFormulaCells)
        /\ \A c \in MasterFormulaCells :
               \E i \in DOMAIN master_mapping.global_formulas :
                   master_mapping.global_formulas[i][2] = MasterEntry(c)

=============================================================================
